---- MODULE Spec2Model ----
(***************************************************************************)
(* BookDistill: the parser registry (ParserFactory), the EPUB parser, the   *)
(* Markdown parser and the session store, as state machines.               *)
(*                                                                         *)
(* Strings are sequences of tokens.  A token is an atomic piece of text:   *)
(* a whitespace character, a letter, or a fixed word such as ".epub" or    *)
(* "title:".  No token is a proper suffix or prefix of another, so         *)
(* endsWith / replace / regular-expression matching work token by token.   *)
(***************************************************************************)
EXTENDS Integers, Sequences, FiniteSets, TLC

VARIABLES
    parsers,    \* ParserFactory.parsers: the Map, as <<format, parser>> entries in insertion order
    regLog,     \* history: every parser handed to register(), in call order
    file,       \* the File the last operation was called with
    outcome,    \* what the last detectFormat / parseFile / parse call produced
    call,       \* the frame of an EpubParser.parse call in flight
    calls,      \* the parseFile calls started so far, each with its file and its own frame
    sessions,           \* useBookSessions: the sessions state, newest first
    activeSessionId,    \* useBookSessions: the activeSessionId state, NULL or an id
    localStorage,       \* the two keys book_distill_sessions and book_distill_active_id
    now,                \* what Date.now() returns
    runs,               \* the processBook calls in flight since the page was loaded
    apiKey,             \* process.env.API_KEY || ''
    quota,              \* how much the storage holds under book_distill_sessions
    uploads,            \* history: sessions that processBook created so far
    justLoaded          \* the page was loaded and nothing has happened since

parserVars == <<parsers, regLog, file, outcome, call, calls>>

sessionVars ==
    <<sessions, activeSessionId, localStorage, now, runs, apiKey, quota, uploads, justLoaded>>

vars == <<parserVars, sessionVars>>

-----------------------------------------------------------------------------
\* Bounds of the model.

MaxRegister == 2    \* register() calls after construction
MaxManifest == 2    \* <item> elements of a generated manifest
MaxSpine == 2       \* <itemref> elements of a generated spine
MaxLines == 5       \* lines of a generated Markdown file

-----------------------------------------------------------------------------
\* JavaScript values.

NULL == "<null>"                \* null / a missing attribute
UNDEFINED == "<undefined>"      \* undefined / a missing Map key or archive entry
EMPTY == <<>>                   \* the empty string

NL == "\n"
SP == " "
TAB == "\t"

\* \s of a regular expression, and String.prototype.trim's white space.
IsSpace(t) == t \in {SP, NL, TAB}

\* A line terminator: what "." does not match and what "$" with /m stops at.
IsLineTerminator(t) == t = NL

\* An optional value: author?: string, cause?: Error.
None == [some |-> FALSE]
Some(v) == [some |-> TRUE, v |-> v]

\* The session store left alone: no session, nothing stored, no upload.
SessionsIdle ==
    /\ sessions = <<>>
    /\ activeSessionId = NULL
    /\ localStorage = [sessions |-> None, activeId |-> NULL]
    /\ now = 0
    /\ runs = <<>>
    /\ apiKey = ""
    /\ quota = 0
    /\ uploads = 0
    /\ justLoaded = TRUE

Max(S) == CHOOSE m \in S : \A n \in S : n <= m
Min(S) == CHOOSE m \in S : \A n \in S : m <= n

\* String.prototype.trim.
TrimStart(s) ==
    IF \A i \in 1..Len(s) : IsSpace(s[i]) THEN EMPTY
    ELSE SubSeq(s, Min({i \in 1..Len(s) : ~IsSpace(s[i])}), Len(s))

TrimEnd(s) ==
    IF \A i \in 1..Len(s) : IsSpace(s[i]) THEN EMPTY
    ELSE SubSeq(s, 1, Max({i \in 1..Len(s) : ~IsSpace(s[i])}))

Trim(s) == TrimEnd(TrimStart(s))

\* text.replace(/\s+/g, ' '): every maximal run of white space becomes one space.
RECURSIVE CollapseFrom(_, _)
CollapseFrom(s, i) ==
    IF i > Len(s) THEN EMPTY
    ELSE IF IsSpace(s[i])
         THEN IF i > 1 /\ IsSpace(s[i - 1]) THEN CollapseFrom(s, i + 1)
              ELSE <<SP>> \o CollapseFrom(s, i + 1)
         ELSE <<s[i]>> \o CollapseFrom(s, i + 1)

CollapseWhitespace(s) == CollapseFrom(s, 1)

-----------------------------------------------------------------------------
\* types.ts: FileFormat, ParseResult, ParseError.

EPUB == "epub"
MARKDOWN == "md"
PDF == "pdf"
DOCX == "docx"
TXT == "txt"
FileFormat == {EPUB, MARKDOWN, PDF, DOCX, TXT}

ParseResult(text, title, author, format) ==
    [text |-> text, title |-> title, author |-> author, format |-> format]

\* new Error(message)
Error(message) == [class |-> "Error", message |-> message]

\* new ParseError(message, format, cause): cause is optional.
ParseError(message, format, cause) ==
    [class |-> "ParseError", message |-> message, format |-> format, cause |-> cause]

\* A thrown value that is no Error object (throw "boom").
ThrownString == [class |-> "string", value |-> <<"boom">>]

\* error instanceof Error
InstanceOfError(e) == e.class \in {"Error", "ParseError"}

\* What a call produces.
NoOutcome == [status |-> "none", op |-> "none"]
Returned(op, v) == [status |-> "returned", op |-> op, value |-> v]
Threw(op, e) == [status |-> "threw", op |-> op, value |-> e]

-----------------------------------------------------------------------------
\* File names.  A name is a sequence of tokens, the extension (with its dot)
\* being one token: "Book.EPUB" is <<"Book", ".EPUB">>.

LowerToken(t) ==
    CASE t = ".EPUB" -> ".epub"
      [] t = ".MD" -> ".md"
      [] t = ".MARKDOWN" -> ".markdown"
      [] t = ".PDF" -> ".pdf"
      [] t = "BOOK" -> "book"
      [] OTHER -> t

\* String.prototype.toLowerCase
ToLowerCase(s) == [i \in 1..Len(s) |-> LowerToken(s[i])]

\* String.prototype.endsWith, for a one-token suffix
EndsWith(s, suffix) == Len(s) > 0 /\ s[Len(s)] = suffix

\* String.prototype.replace(pattern, '') with a string pattern: the first
\* occurrence only, matched exactly (case-sensitively).
ReplaceFirst(s, tok) ==
    IF \E i \in 1..Len(s) : s[i] = tok
    THEN LET i == Min({j \in 1..Len(s) : s[j] = tok})
         IN  SubSeq(s, 1, i - 1) \o SubSeq(s, i + 1, Len(s))
    ELSE s

-----------------------------------------------------------------------------
\* The capabilities the EPUB parser uses: JSZip and DOMParser.

\* What loadedZip.file(path)?.async("string") gives: undefined for a missing
\* entry, "" for an empty one, else the entry's markup (already parsed here).
NoEntry == [k |-> "undefined"]
EmptyEntry == [k |-> "empty"]

\* !value, for an archive entry's text
Falsy(c) == c.k \in {"undefined", "empty"}

\* !value, for a string or null / undefined
FalsyStr(s) == s \in {NULL, UNDEFINED, ""}

CONTAINER_PATH == <<"META-INF", "container.xml">>

\* loadedZip.file(path)?.async("string")
ZipRead(zip, path) ==
    IF path \in DOMAIN zip.entries THEN zip.entries[path] ELSE NoEntry

\* zip.loadAsync(file): fails on bytes that are no zip archive.
LoadAsyncOk(f) == f.bytes.t = "zip"

ZIP_ERROR == <<"Can't find end of central directory">>
MSG_CONTAINER == <<"Invalid EPUB: Missing container.xml">>
MSG_OPF_PATH == <<"Invalid EPUB: Cannot find OPF path">>
MSG_OPF_MISSING == <<"Invalid EPUB: OPF file missing">>
MSG_UNKNOWN == <<"Unknown error">>
MSG_EPUB_FAILED == <<"EPUB parsing failed: ">>

\* A script or style element of a content document, and the text inside it.
SCRIPT == "<script>"
STYLE == "<style>"
IsScriptOrStyle(node) == node \in {SCRIPT, STYLE}
NodeText(node) == IF IsScriptOrStyle(node) THEN <<"s">> ELSE <<node>>

\* doc.querySelectorAll('script, style').forEach(s => s.remove())
RemoveScripts(body) == SelectSeq(body, LAMBDA node : ~IsScriptOrStyle(node))

\* doc.body.textContent || ""
RECURSIVE TextContent(_)
TextContent(body) ==
    IF body = <<>> THEN EMPTY
    ELSE NodeText(Head(body)) \o TextContent(Tail(body))

\* The Map<string, string> of the manifest, as <<key, value>> entries.
MapHas(m, k) == \E i \in 1..Len(m) : m[i][1] = k

MapGet(m, k) ==
    IF MapHas(m, k) THEN m[CHOOSE i \in 1..Len(m) : m[i][1] = k][2] ELSE UNDEFINED

\* Map.prototype.set: an existing key keeps its place and gets the new value.
MapSet_MoveToEnd(m, k, v) ==
    Append(SelectSeq(m, LAMBDA e : e[1] # k), <<k, v>>)

MapSet(m, k, v) ==
    IF MapHas(m, k)
    THEN [i \in 1..Len(m) |-> IF m[i][1] = k THEN <<k, v>> ELSE m[i]]
    ELSE Append(m, <<k, v>>)

\* value || fallback, for an attribute
OrEmpty(s) == IF FalsyStr(s) THEN "" ELSE s

\* manifestItems.forEach(item => manifestMap.set(id || "", href || ""))
RECURSIVE BuildManifestMap_FirstWins(_, _)
BuildManifestMap_FirstWins(items, m) ==
    IF items = <<>> THEN m
    ELSE BuildManifestMap_FirstWins(
             Tail(items),
             IF MapHas(m, OrEmpty(Head(items).id)) THEN m
             ELSE MapSet(m, OrEmpty(Head(items).id), OrEmpty(Head(items).href)))

RECURSIVE BuildManifestMap(_, _)
BuildManifestMap(items, m) ==
    IF items = <<>> THEN m
    ELSE BuildManifestMap(Tail(items),
                          MapSet(m, OrEmpty(Head(items).id), OrEmpty(Head(items).href)))

\* opfPath.substring(0, opfPath.lastIndexOf('/')): a path is its components.
OpfFolder(opfPath) == SubSeq(opfPath, 1, Len(opfPath) - 1)

ResolvePath(opfFolder, href) ==
    IF opfFolder = <<>> THEN <<href>> ELSE Append(opfFolder, href)

\* text.replace(/\s+/g, ' ').trim() + "\n\n"
Paragraph_NoTrim(text) == CollapseWhitespace(text) \o <<NL, NL>>

Paragraph(text) == Trim(CollapseWhitespace(text)) \o <<NL, NL>>

-----------------------------------------------------------------------------
\* EpubParser (services/parsers/epubParser.ts).

EpubCanParse_Sniff(f) == EndsWith(ToLowerCase(f.name), ".epub") /\ f.bytes.t = "zip"

EpubCanParse(f) == EndsWith(ToLowerCase(f.name), ".epub")

\* The catch block of parse: every error leaves as a ParseError tagged epub.
EpubCatch_Rethrow(error) == error

EpubCatch_NoCause(error) ==
    ParseError(MSG_EPUB_FAILED
                   \o (IF InstanceOfError(error) THEN error.message ELSE MSG_UNKNOWN),
               EPUB,
               None)

EpubCatch(error) ==
    ParseError(MSG_EPUB_FAILED
                   \o (IF InstanceOfError(error) THEN error.message ELSE MSG_UNKNOWN),
               EPUB,
               IF InstanceOfError(error) THEN Some(error) ELSE None)

\* The frame of a parse call: where it is and its local variables.
EpubIdle ==
    [pc |-> "idle", opfPath |-> <<>>, title |-> EMPTY, author |-> None,
     manifestMap |-> <<>>, spineItems |-> <<>>, pos |-> 0, fullText |-> EMPTY,
     result |-> NoOutcome]

EpubThrow(c, error) ==
    [c EXCEPT !.pc = "done", !.result = Threw("parse", EpubCatch(error))]

\* await zip.loadAsync(file)
EpubLoaded(c, f) ==
    IF LoadAsyncOk(f) THEN [c EXCEPT !.pc = "container"]
    ELSE EpubThrow(c, Error(ZIP_ERROR))

\* 1. Find the OPF file path from META-INF/container.xml
EpubContainerRead(c, f) ==
    LET containerXml == ZipRead(f.bytes, CONTAINER_PATH)
    IN  IF Falsy(containerXml) THEN EpubThrow(c, Error(MSG_CONTAINER))
        ELSE LET opfPath == containerXml.fullPath      \* rootFile?.getAttribute("full-path")
             IN  IF ~opfPath.some \/ opfPath.v = <<>>
                 THEN EpubThrow(c, Error(MSG_OPF_PATH))
                 ELSE [c EXCEPT !.pc = "opf", !.opfPath = opfPath.v]

\* title: the declared title || file.name.replace('.epub', '')
EpubTitle(declared, f) ==
    IF declared.some /\ declared.v # EMPTY THEN declared.v
    ELSE ReplaceFirst(f.name, ".epub")

\* author: the declared creator || undefined
EpubAuthor(declared) ==
    IF declared.some /\ declared.v # EMPTY THEN declared ELSE None

\* Array.from(opfDoc.querySelectorAll("spine > itemref")), as the idrefs
SpineOrder_Manifest(opf) == [i \in 1..Len(opf.manifest) |-> opf.manifest[i].id]

SpineOrder_Dedup(opf) ==
    LET kept == SelectSeq([i \in 1..Len(opf.spine) |-> <<i, opf.spine[i]>>],
                          LAMBDA e : \A j \in 1..(e[1] - 1) : opf.spine[j] # e[2])
    IN  [k \in 1..Len(kept) |-> kept[k][2]]

SpineOrder(opf) == opf.spine

\* 2. Read the OPF file; metadata; 3. manifest and spine
EpubOpfRead(c, f) ==
    LET opfContent == ZipRead(f.bytes, c.opfPath)
    IN  IF Falsy(opfContent) THEN EpubThrow(c, Error(MSG_OPF_MISSING))
        ELSE [c EXCEPT !.pc = "spine",
                       !.title = EpubTitle(opfContent.title, f),
                       !.author = EpubAuthor(opfContent.creator),
                       !.manifestMap = BuildManifestMap(opfContent.manifest, <<>>),
                       !.spineItems = SpineOrder(opfContent),
                       !.pos = 1]

\* 4. One iteration of the loop over spineItems.
EpubSpineItem_NoSkip(c, f) ==
    LET idref == c.spineItems[c.pos]
        href == MapGet(c.manifestMap, idref)
        fileContent == IF FalsyStr(idref) \/ FalsyStr(href) THEN NoEntry
                       ELSE ZipRead(f.bytes, ResolvePath(OpfFolder(c.opfPath), href))
    IN  [c EXCEPT !.pos = c.pos + 1,
                  !.fullText = c.fullText \o
                      Paragraph(IF Falsy(fileContent) THEN EMPTY
                                ELSE TextContent(RemoveScripts(fileContent.body)))]

EpubSpineItem_AbortOnMissing(c, f) ==
    LET idref == c.spineItems[c.pos]
        next == [c EXCEPT !.pos = c.pos + 1]
    IN  IF FalsyStr(idref) THEN next
        ELSE LET href == MapGet(c.manifestMap, idref)
             IN  IF FalsyStr(href) THEN next
                 ELSE LET fullPath == ResolvePath(OpfFolder(c.opfPath), href)
                          fileContent == ZipRead(f.bytes, fullPath)
                      IN  IF Falsy(fileContent)
                          THEN EpubThrow(c, Error(<<"Invalid EPUB: Missing document">>))
                          ELSE [next EXCEPT !.fullText = c.fullText \o
                                   Paragraph(TextContent(RemoveScripts(fileContent.body)))]

EpubSpineItem(c, f) ==
    LET idref == c.spineItems[c.pos]          \* item.getAttribute("idref")
        next == [c EXCEPT !.pos = c.pos + 1]
    IN  IF FalsyStr(idref) THEN next
        ELSE LET href == MapGet(c.manifestMap, idref)
             IN  IF FalsyStr(href) THEN next
                 ELSE LET fullPath == ResolvePath(OpfFolder(c.opfPath), href)
                          fileContent == ZipRead(f.bytes, fullPath)
                      IN  IF Falsy(fileContent) THEN next
                          ELSE [next EXCEPT !.fullText = c.fullText \o
                                   Paragraph(TextContent(RemoveScripts(fileContent.body)))]

\* return { text: fullText, title, author, format: FileFormat.EPUB }
EpubReturn(c) ==
    [c EXCEPT !.pc = "done",
              !.result = Returned("parse", ParseResult(c.fullText, c.title, c.author, EPUB))]

\* One step of parse, from one suspension point to the next.
EpubStep(c, f) ==
    CASE c.pc = "idle" -> [EpubIdle EXCEPT !.pc = "loadAsync"]
      [] c.pc = "loadAsync" -> EpubLoaded(c, f)
      [] c.pc = "container" -> EpubContainerRead(c, f)
      [] c.pc = "opf" -> EpubOpfRead(c, f)
      [] c.pc = "spine" /\ c.pos <= Len(c.spineItems) -> EpubSpineItem(c, f)
      [] c.pc = "spine" /\ c.pos > Len(c.spineItems) -> EpubReturn(c)
      [] OTHER -> c

\* parse(file) run to its end: what the promise settles to.
RECURSIVE EpubRun(_, _)
EpubRun(c, f) == IF c.pc = "done" THEN c.result ELSE EpubRun(EpubStep(c, f), f)

EpubParse(f) == EpubRun(EpubStep(EpubIdle, f), f)

-----------------------------------------------------------------------------
\* MarkdownParser (services/parsers/markdownParser.ts).

MarkdownCanParse(f) ==
    LET name == ToLowerCase(f.name)
    IN  EndsWith(name, ".md") \/ EndsWith(name, ".markdown")

DASHES == "---"
TITLE_KEY == "title:"
AUTHOR_KEY == "author:"
MSG_READ == <<"Failed to read file">>

\* readFile: the FileReader's onload gives the text, its onerror rejects.
ReadFileOk(f) == f.bytes.t # "unreadable"
ReadFileText(f) == IF f.bytes.t = "text" THEN f.bytes.chars ELSE <<"PK">>

\* /^---\s*\n([\s\S]*?)\n---\s*\n([\s\S]*)$/ on text t.  A match is three
\* positions: a, the line break that ends the opening line; b, the line break
\* before the closing dashes; c, the line break that ends the closing line.
OpenAt(t, a) ==
    /\ a \in 2..Len(t)
    /\ t[1] = DASHES
    /\ t[a] = NL
    /\ \A i \in 2..(a - 1) : IsSpace(t[i])

CloseAt(t, b, c) ==
    /\ b + 1 <= Len(t)
    /\ t[b] = NL
    /\ t[b + 1] = DASHES
    /\ c \in (b + 2)..Len(t)
    /\ t[c] = NL
    /\ \A i \in (b + 2)..(c - 1) : IsSpace(t[i])

CloseStarts(t, a) == {b \in (a + 1)..Len(t) : \E c \in (b + 2)..Len(t) : CloseAt(t, b, c)}

\* The backtracking order: the first \s* is greedy (the last a that lets the
\* rest match), the first group lazy (the first b), the second \s* greedy.
FrontmatterMatch(t) ==
    LET as == {a \in 2..Len(t) : OpenAt(t, a) /\ CloseStarts(t, a) # {}}
    IN  IF as = {} THEN [matched |-> FALSE]
        ELSE LET a == Max(as)
                 b == Min(CloseStarts(t, a))
                 c == Max({k \in (b + 2)..Len(t) : CloseAt(t, b, k)})
             IN  [matched |-> TRUE,
                  frontmatter |-> SubSeq(t, a + 1, b - 1),
                  content |-> SubSeq(t, c + 1, Len(t))]

\* /^key\s*(.+)$/m on the frontmatter: ^ is a line start, \s* is greedy and
\* may cross line breaks, "." stops at a line break.
KeyStarts(fm, key) ==
    {p \in 1..Len(fm) : fm[p] = key /\ (p = 1 \/ IsLineTerminator(fm[p - 1]))}

CaptureStarts(fm, p) ==
    {s \in (p + 1)..Len(fm) :
        ~IsLineTerminator(fm[s]) /\ \A i \in (p + 1)..(s - 1) : IsSpace(fm[i])}

LineEnd(fm, s) ==
    Max({e \in s..Len(fm) : \A i \in s..e : ~IsLineTerminator(fm[i])})

\* match[1].trim(), or None when the key does not match
KeyValue(fm, key) ==
    LET ps == {p \in KeyStarts(fm, key) : CaptureStarts(fm, p) # {}}
    IN  IF ps = {} THEN None
        ELSE LET s == Max(CaptureStarts(fm, Min(ps)))
             IN  Some(Trim(SubSeq(fm, s, LineEnd(fm, s))))

\* parseFrontmatter(text): { content, metadata: { title?, author? } }
ParseFrontmatter_Collapse(text) ==
    LET m == FrontmatterMatch(text)
    IN  IF ~m.matched
        THEN [content |-> text, title |-> None, author |-> None]
        ELSE [content |-> Trim(CollapseWhitespace(m.content)),
              title |-> KeyValue(m.frontmatter, TITLE_KEY),
              author |-> KeyValue(m.frontmatter, AUTHOR_KEY)]

ParseFrontmatter(text) ==
    LET m == FrontmatterMatch(text)
    IN  IF ~m.matched
        THEN [content |-> text, title |-> None, author |-> None]
        ELSE [content |-> Trim(m.content),
              title |-> KeyValue(m.frontmatter, TITLE_KEY),
              author |-> KeyValue(m.frontmatter, AUTHOR_KEY)]

\* file.name.replace(/\.md(arkdown)?$/, '')
StripMdExtension(name) ==
    IF EndsWith(name, ".md") \/ EndsWith(name, ".markdown")
    THEN SubSeq(name, 1, Len(name) - 1)
    ELSE name

\* metadata.title || the file's name without its extension
MarkdownTitle(title, f) ==
    IF title.some /\ title.v # EMPTY THEN title.v ELSE StripMdExtension(f.name)

\* The catch block of parse.
MarkdownCatch(error) ==
    ParseError(<<"Markdown parsing failed: ">>
                   \o (IF InstanceOfError(error) THEN error.message ELSE MSG_UNKNOWN),
               MARKDOWN,
               IF InstanceOfError(error) THEN Some(error) ELSE None)

\* parse(file): what the promise settles to.
MarkdownParse(f) ==
    IF ~ReadFileOk(f) THEN Threw("parse", MarkdownCatch(Error(MSG_READ)))
    ELSE LET fm == ParseFrontmatter(ReadFileText(f))
         IN  Returned("parse",
                      ParseResult(fm.content, MarkdownTitle(fm.title, f), fm.author, MARKDOWN))

\* PdfParser (services/parsers/pdfParser.ts).
PdfCanParse(f) == EndsWith(ToLowerCase(f.name), ".pdf")

MSG_PDF == <<"PDF parsing is not yet implemented. Coming soon!">>

PdfParse_Untyped(f) == Threw("parse", Error(MSG_PDF))

PdfParse(f) == Threw("parse", ParseError(MSG_PDF, PDF, None))

-----------------------------------------------------------------------------
\* ParserFactory (services/epubService.ts, lines 241-337).

\* The parser objects.  A Custom parser is one registered from outside
\* (register "supports external extension"): it claims every file or the
\* files of one extension, and its parse settles as its author wrote it.
EpubParser == [cls |-> "EpubParser", format |-> EPUB, accepts |-> ".epub"]
MarkdownParser == [cls |-> "MarkdownParser", format |-> MARKDOWN, accepts |-> ".md"]
PdfParser == [cls |-> "PdfParser", format |-> PDF, accepts |-> ".pdf"]
Custom(format, accepts) == [cls |-> "Custom", format |-> format, accepts |-> accepts]

CustomParsers == {Custom(fmt, acc) : fmt \in {EPUB, TXT}, acc \in {"all", ".docx"}}
Parsers == {EpubParser, MarkdownParser, PdfParser} \cup CustomParsers

\* How a Custom parser's parse can settle.
Behaviours == {"returns", "throwsError", "throwsParseError", "throwsString"}

\* parser.canParse(file)
CanParse(p, f) ==
    CASE p.cls = "EpubParser" -> EpubCanParse(f)
      [] p.cls = "MarkdownParser" -> MarkdownCanParse(f)
      [] p.cls = "PdfParser" -> PdfCanParse(f)
      [] OTHER -> p.accepts = "all" \/ EndsWith(ToLowerCase(f.name), p.accepts)

\* await parser.parse(file)
ParserParse(p, f, behaviour) ==
    CASE p.cls = "EpubParser" -> EpubParse(f)
      [] p.cls = "MarkdownParser" -> MarkdownParse(f)
      [] p.cls = "PdfParser" -> PdfParse(f)
      [] OTHER ->
           CASE behaviour = "returns" ->
                  Returned("parse", ParseResult(<<"text">>, <<"Title">>, None, p.format))
             [] behaviour = "throwsError" -> Threw("parse", Error(<<"disk failure">>))
             [] behaviour = "throwsParseError" ->
                  Threw("parse", ParseError(<<"bad input">>, p.format, None))
             [] OTHER -> Threw("parse", ThrownString)

\* parser.capabilities.extensions
Extensions(p) ==
    CASE p.cls = "EpubParser" -> <<"epub">>
      [] p.cls = "MarkdownParser" -> <<"md", "markdown">>
      [] p.cls = "PdfParser" -> <<"pdf">>
      [] OTHER -> IF p.accepts = "all" THEN <<"epub", "txt">> ELSE <<"docx">>

\* register(parser): this.parsers.set(parser.format, parser)
Register_FirstWins(reg, p) ==
    IF MapHas(reg, p.format) THEN reg ELSE MapSet(reg, p.format, p)

Register_MoveToEnd(reg, p) == MapSet_MoveToEnd(reg, p.format, p)

Register(reg, p) == MapSet(reg, p.format, p)

\* constructor / registerDefaultParsers
DefaultParsers == Register(Register(<<>>, EpubParser), MarkdownParser)

\* detectFormat(file): for (const parser of this.parsers.values()) ...
DetectFormat_Last(reg, f) ==
    IF \E i \in 1..Len(reg) : CanParse(reg[i][2], f)
    THEN reg[Max({i \in 1..Len(reg) : CanParse(reg[i][2], f)})][2].format
    ELSE NULL

DetectFormat(reg, f) ==
    IF \E i \in 1..Len(reg) : CanParse(reg[i][2], f)
    THEN reg[Min({i \in 1..Len(reg) : CanParse(reg[i][2], f)})][2].format
    ELSE NULL

\* getParser(format): this.parsers.get(format) || null
GetParser(reg, format) ==
    IF MapHas(reg, format)
    THEN Some(reg[CHOOSE i \in 1..Len(reg) : reg[i][1] = format][2])
    ELSE None

MSG_UNSUPPORTED == <<"Unsupported file format: ">>

\* The error of parseFile when detection finds no format.
UnsupportedFormatError_NoName(f) ==
    ParseError(<<"Unsupported file format">>, EPUB, None)

UnsupportedFormatError(f) ==
    ParseError(MSG_UNSUPPORTED \o f.name, EPUB, None)

\* for (const parser of this.parsers.values()) allExtensions.push(...extensions)
RECURSIVE AllExtensions_Unique(_)
AllExtensions_Unique(reg) ==
    IF reg = <<>> THEN <<>>
    ELSE LET rest == AllExtensions_Unique(SubSeq(reg, 1, Len(reg) - 1))
         IN  rest \o SelectSeq(Extensions(reg[Len(reg)][2]),
                               LAMBDA e : \A i \in 1..Len(rest) : rest[i] # e)

RECURSIVE AllExtensions(_)
AllExtensions(reg) ==
    IF reg = <<>> THEN <<>>
    ELSE Extensions(Head(reg)[2]) \o AllExtensions(Tail(reg))

\* allExtensions.map(ext => `.${ext}`).join(',')
RECURSIVE JoinAccept(_)
JoinAccept(exts) ==
    IF exts = <<>> THEN EMPTY
    ELSE IF Len(exts) = 1 THEN <<".", exts[1]>>
    ELSE <<".", exts[1], ",">> \o JoinAccept(Tail(exts))

\* getSupportedFormats()
GetSupportedFormats(reg) ==
    [extensions |-> AllExtensions(reg), accept |-> JoinAccept(AllExtensions(reg))]

\* The error of parseFile when the detected format has no parser.
NoParserError(format) ==
    ParseError(<<"No parser available for format: ", format>>, format, None)

\* The catch block of parseFile.
WrapParseFailure_Rethrow(format, error) == error

WrapParseFailure_DropCause(format, error) ==
    ParseError(<<"Failed to parse ", format, " file: ">>
                   \o (IF InstanceOfError(error) THEN error.message ELSE MSG_UNKNOWN),
               format,
               None)

WrapParseFailure(format, error) ==
    ParseError(<<"Failed to parse ", format, " file: ">>
                   \o (IF InstanceOfError(error) THEN error.message ELSE MSG_UNKNOWN),
               format,
               IF InstanceOfError(error) THEN Some(error) ELSE None)

\* parseFile(file).  The outcome also records what the parser's parse
\* raised, if it raised (raised), for the statements about the cause.
ParseFile(reg, f, behaviour) ==
    LET format == DetectFormat(reg, f)
    IN  IF FalsyStr(format)
        THEN Threw("parseFile", UnsupportedFormatError(f)) @@ [raised |-> None]
        ELSE LET parser == GetParser(reg, format)
             IN  IF ~parser.some
                 THEN Threw("parseFile", NoParserError(format)) @@ [raised |-> None]
                 ELSE LET r == ParserParse(parser.v, f, behaviour)
                      IN  IF r.status = "returned"
                          THEN Returned("parseFile", r.value) @@ [raised |-> None]
                          ELSE Threw("parseFile", WrapParseFailure(format, r.value))
                                   @@ [raised |-> Some(r.value)]

-----------------------------------------------------------------------------
\* Input files.  A File is its name and its bytes; the bytes are a zip
\* archive (its entries by path), plain text, or unreadable.

File(name, bytes) == [name |-> name, bytes |-> bytes]

Zip(entries) == [t |-> "zip", entries |-> entries]
Text(chars) == [t |-> "text", chars |-> chars]
Unreadable == [t |-> "unreadable"]

\* META-INF/container.xml, with the rootfile's full-path attribute (None: no
\* rootfile element or no such attribute).
ContainerXml(fullPath) == [k |-> "container", fullPath |-> fullPath]

\* The package document.
Opf(title, creator, manifest, spine) ==
    [k |-> "opf", title |-> title, creator |-> creator,
     manifest |-> manifest, spine |-> spine]

\* A content document with the child nodes of its body.
Html(body) == [k |-> "html", body |-> body]

SeqsUpTo(S, n) == UNION {[1..k -> S] : k \in 0..n}

DocHello == <<"Hello">>
DocWorld == <<SP, "World", NL, TAB, SCRIPT, "x", SP>>
DocBlank == <<SP, STYLE, NL>>

Folders == {<<>>, <<"OEBPS">>}
ManifestItems == [id : {"a", "b"}, href : {"c1", "c2", NULL}]
SpineRefs == {"a", "b", NULL}
DocsC1 == {NoEntry, EmptyEntry, Html(DocHello), Html(DocBlank)}
DocsC2 == {Html(DocWorld)}

TitleBook == <<"Sample", SP, "Book">>
AuthorJane == <<"Jane", SP, "Doe">>

EpubName == <<"book", ".epub">>

\* The archive of a book: the container, the package document in `folder`,
\* two content documents beside it and a decoy at the archive root.
Archive(folder, container, opf, c1, c2) ==
    LET put(path, c) == IF c = NoEntry THEN <<>> ELSE (path :> c)
    IN  Zip(put(CONTAINER_PATH, container)
            @@ put(folder \o <<"content.opf">>, opf)
            @@ put(folder \o <<"c1">>, c1)
            @@ put(folder \o <<"c2">>, c2)
            @@ put(<<"c1">>, Html(<<"decoy">>)))

\* Books that reach the spine loop: every manifest, spine and document set.
SpineBooks ==
    { File(EpubName,
           Archive(folder, ContainerXml(Some(folder \o <<"content.opf">>)),
                   Opf(Some(TitleBook), Some(AuthorJane), m, sp), c1, c2)) :
        folder \in Folders, m \in SeqsUpTo(ManifestItems, MaxManifest),
        sp \in SeqsUpTo(SpineRefs, MaxSpine), c1 \in DocsC1, c2 \in DocsC2 }

SmallManifest == <<[id |-> "a", href |-> "c1"], [id |-> "b", href |-> "c2"]>>
SmallSpine == <<"a", "b">>

\* Books with each structural defect, and each metadata variant.
DefectBooksIn(folder) ==
    { File(EpubName,
           Archive(folder, container, opf, Html(DocHello), Html(DocWorld))) :
        container \in {NoEntry, EmptyEntry, ContainerXml(None), ContainerXml(Some(<<>>)),
                       ContainerXml(Some(folder \o <<"content.opf">>)),
                       ContainerXml(Some(<<"missing.opf">>))},
        opf \in {NoEntry, EmptyEntry}
                \cup { Opf(t, a, SmallManifest, SmallSpine) :
                         t \in {None, Some(EMPTY), Some(TitleBook)},
                         a \in {None, Some(EMPTY), Some(AuthorJane)} } }

DefectBooks ==
    { File(name, Unreadable) : name \in {EpubName} }
    \cup { File(name, Text(<<"x">>)) : name \in {EpubName} }
    \cup UNION { DefectBooksIn(folder) : folder \in Folders }

EpubFiles == SpineBooks \cup DefectBooks

-----------------------------------------------------------------------------
\* EpubParser.parse, step by step, on one generated book.

EpubBegin ==
    /\ call.pc = "idle"
    /\ call' = EpubStep(call, file)
    /\ UNCHANGED <<parsers, regLog, file, outcome, calls>>
    /\ UNCHANGED sessionVars

EpubLoad ==
    /\ call.pc = "loadAsync"
    /\ call' = EpubStep(call, file)
    /\ UNCHANGED <<parsers, regLog, file, outcome, calls>>
    /\ UNCHANGED sessionVars

EpubContainer ==
    /\ call.pc = "container"
    /\ call' = EpubStep(call, file)
    /\ UNCHANGED <<parsers, regLog, file, outcome, calls>>
    /\ UNCHANGED sessionVars

EpubOpf ==
    /\ call.pc = "opf"
    /\ call' = EpubStep(call, file)
    /\ UNCHANGED <<parsers, regLog, file, outcome, calls>>
    /\ UNCHANGED sessionVars

EpubSpine ==
    /\ call.pc = "spine"
    /\ call.pos <= Len(call.spineItems)
    /\ call' = EpubStep(call, file)
    /\ UNCHANGED <<parsers, regLog, file, outcome, calls>>
    /\ UNCHANGED sessionVars

EpubFinish ==
    /\ call.pc = "spine"
    /\ call.pos > Len(call.spineItems)
    /\ call' = EpubStep(call, file)
    /\ UNCHANGED <<parsers, regLog, file, outcome, calls>>
    /\ UNCHANGED sessionVars

EpubNext ==
    \/ EpubBegin
    \/ EpubLoad
    \/ EpubContainer
    \/ EpubOpf
    \/ EpubSpine
    \/ EpubFinish

EpubInit ==
    /\ parsers = DefaultParsers
    /\ regLog = <<EpubParser, MarkdownParser>>
    /\ file \in EpubFiles
    /\ outcome = NoOutcome
    /\ call = EpubIdle
    /\ calls = <<>>
    /\ SessionsIdle

SpecEpub == EpubInit /\ [][EpubNext]_vars

-----------------------------------------------------------------------------
\* Markdown files: every text of up to MaxLines lines drawn from MdLines,
\* with or without a final line break.

MdLines ==
    { <<DASHES>>, <<DASHES, SP>>, <<TITLE_KEY, SP, "X", SP>>, <<AUTHOR_KEY, SP, "Y">>,
      <<"b", SP, SP, "b">>, <<>> }

RECURSIVE JoinLines(_)
JoinLines(ls) ==
    IF ls = <<>> THEN EMPTY
    ELSE IF Len(ls) = 1 THEN ls[1]
    ELSE ls[1] \o <<NL>> \o JoinLines(Tail(ls))

MdTexts ==
    { JoinLines(ls) \o end : ls \in SeqsUpTo(MdLines, MaxLines), end \in {EMPTY, <<NL>>} }

MdNames == {<<"notes", ".md">>, <<"NOTES", ".MD">>}

\* Texts in which a key line may have no value: "title:" and the line break.
BareKeyLines == { <<DASHES>>, <<TITLE_KEY>>, <<AUTHOR_KEY, SP, "Y">>, <<"b">> }

BareKeyTexts == { JoinLines(ls) \o <<NL>> : ls \in SeqsUpTo(BareKeyLines, MaxLines) }

MdFiles == { File(name, Text(t)) : name \in MdNames, t \in MdTexts }

BareKeyFiles == { File(<<"notes", ".md">>, Text(t)) : t \in BareKeyTexts }

\* parserFactory.parseFile(file) on one generated Markdown file.
MdParseFile ==
    /\ outcome = NoOutcome
    /\ outcome' = ParseFile(parsers, file, "returns")
    /\ UNCHANGED <<parsers, regLog, file, call, calls>>
    /\ UNCHANGED sessionVars

MdInit ==
    /\ parsers = DefaultParsers
    /\ regLog = <<EpubParser, MarkdownParser>>
    /\ (file \in MdFiles \/ file \in BareKeyFiles)
    /\ outcome = NoOutcome
    /\ call = EpubIdle
    /\ calls = <<>>
    /\ SessionsIdle

MdNext == MdParseFile

SpecMd == MdInit /\ [][MdNext]_vars

-----------------------------------------------------------------------------
\* The registry in use: register, detectFormat and parseFile calls on the
\* singleton parserFactory, in any order.

GoodBook ==
    File(EpubName,
         Archive(<<"OEBPS">>, ContainerXml(Some(<<"OEBPS", "content.opf">>)),
                 Opf(Some(TitleBook), Some(AuthorJane), SmallManifest, SmallSpine),
                 Html(DocHello), Html(DocWorld)))

NotesText ==
    <<DASHES, NL, TITLE_KEY, SP, "X", NL, AUTHOR_KEY, SP, "Y", NL, DASHES, NL, "b", NL>>

\* The archive of a book whose package document declares no title and no creator.
UntitledArchive ==
    Archive(<<"OEBPS">>, ContainerXml(Some(<<"OEBPS", "content.opf">>)),
            Opf(None, None, SmallManifest, SmallSpine), Html(DocHello), Html(DocWorld))

\* A Markdown text without frontmatter.
PlainText == <<"b", NL>>

RegistryFiles ==
    { GoodBook,
      File(<<"BOOK", ".EPUB">>, Text(<<"x">>)),
      File(<<"BOOK", ".EPUB">>, UntitledArchive),
      File(<<".epub">>, UntitledArchive),
      File(<<"notes", ".MD">>, Text(NotesText)),
      File(<<"BOOK", ".MD">>, Text(PlainText)),
      File(<<".md">>, Text(PlainText)),
      File(<<"draft", ".markdown">>, Unreadable),
      File(<<"report", ".docx">>, Text(<<"x">>)),
      File(<<"paper", ".pdf">>, Text(<<"x">>)) }

NoFile == File(<<>>, Unreadable)

RegisterCall(p) ==
    /\ Len(regLog) < Len(DefaultParsers) + MaxRegister
    /\ parsers' = Register(parsers, p)
    /\ regLog' = Append(regLog, p)
    /\ outcome' = NoOutcome
    /\ UNCHANGED <<file, call, calls>>
    /\ UNCHANGED sessionVars

DetectFormatCall(f) ==
    /\ file' = f
    /\ outcome' = Returned("detectFormat", DetectFormat(parsers, f))
    /\ UNCHANGED <<parsers, regLog, call, calls>>
    /\ UNCHANGED sessionVars

\* The behaviour is an input of a Custom parser's parse only.
BehavioursFor(reg, f) ==
    LET format == DetectFormat(reg, f)
    IN  IF ~FalsyStr(format) /\ GetParser(reg, format).some
           /\ GetParser(reg, format).v.cls = "Custom"
        THEN Behaviours
        ELSE {"returns"}

ParseFileCall(f, behaviour) ==
    /\ behaviour \in BehavioursFor(parsers, f)
    /\ file' = f
    /\ outcome' = ParseFile(parsers, f, behaviour)
    /\ UNCHANGED <<parsers, regLog, call, calls>>
    /\ UNCHANGED sessionVars

GetSupportedFormatsCall ==
    /\ outcome' = Returned("getSupportedFormats", GetSupportedFormats(parsers))
    /\ UNCHANGED <<parsers, regLog, file, call, calls>>
    /\ UNCHANGED sessionVars

Init ==
    /\ parsers = DefaultParsers
    /\ regLog = <<EpubParser, MarkdownParser>>
    /\ file = NoFile
    /\ outcome = NoOutcome
    /\ call = EpubIdle
    /\ calls = <<>>
    /\ SessionsIdle

Next ==
    \/ \E p \in Parsers : RegisterCall(p)
    \/ \E f \in RegistryFiles : DetectFormatCall(f)
    \/ \E f \in RegistryFiles, b \in Behaviours : ParseFileCall(f, b)
    \/ GetSupportedFormatsCall

Spec == Init /\ [][Next]_vars

-----------------------------------------------------------------------------
\* parseFile calls in flight.  A call is the file it was given, the parser
\* that parseFile selected, the frame of that parser's parse (its local
\* variables: every call makes its own archive handle, document trees and
\* accumulator) and what the call's promise settled to.  `overlapped` is
\* history: the call took a step while another call was unsettled.

MaxCalls == 2       \* parseFile calls started

\* The FileReader of MarkdownParser.readFile is the one suspension point of
\* the Markdown parser; an async parse that awaits nothing is settled at once.
ParserEnter(p, f) ==
    CASE p.cls = "EpubParser" -> EpubStep(EpubIdle, f)
      [] p.cls = "MarkdownParser" -> [EpubIdle EXCEPT !.pc = "readFile"]
      [] OTHER -> [EpubIdle EXCEPT !.pc = "done", !.result = ParserParse(p, f, "returns")]

\* parseFile(file) up to its first suspension point: detectFormat, getParser
\* and the synchronous start of parser.parse(file).
CallStart(reg, f) ==
    LET format == DetectFormat(reg, f)
        rejected(e) == [file |-> f, format |-> EPUB, parser |-> None, frame |-> EpubIdle,
                        result |-> Threw("parseFile", e), overlapped |-> FALSE]
    IN  IF FalsyStr(format) THEN rejected(UnsupportedFormatError(f))
        ELSE LET parser == GetParser(reg, format)
             IN  IF ~parser.some
                 THEN [rejected(NoParserError(format)) EXCEPT !.format = format]
                 ELSE [file |-> f, format |-> format, parser |-> parser,
                       frame |-> ParserEnter(parser.v, f),
                       result |-> NoOutcome, overlapped |-> FALSE]

\* A new call gets a frame of its own.
NewCall_CarryText(cs, reg, f) ==
    LET c == CallStart(reg, f)
    IN  IF cs = <<>> THEN <<c>>
        ELSE Append(cs, [c EXCEPT !.frame.fullText = cs[Len(cs)].frame.fullText])

NewCall(cs, reg, f) == Append(cs, CallStart(reg, f))

\* The selected parser's parse, from one suspension point to the next.
ParserStep(c) ==
    IF c.parser.v.cls = "EpubParser" THEN EpubStep(c.frame, c.file)
    ELSE [c.frame EXCEPT !.pc = "done", !.result = MarkdownParse(c.file)]

Unsettled(c) == c.result = NoOutcome

\* A step of call k changes the frame of call k and no other.
StepOf_SharedText(cs, k) ==
    LET frame == ParserStep(cs[k])
    IN  [i \in 1..Len(cs) |->
            IF i = k THEN [cs[i] EXCEPT !.frame = frame]
            ELSE IF Unsettled(cs[i]) /\ cs[i].frame.pc # "done"
                 THEN [cs[i] EXCEPT !.frame.fullText = frame.fullText]
                 ELSE cs[i]]

StepOf(cs, k) == [cs EXCEPT ![k].frame = ParserStep(cs[k])]

\* return await parser.parse(file), and the catch block around it.
Settled(c) ==
    IF c.frame.result.status = "returned"
    THEN [c EXCEPT !.result = Returned("parseFile", c.frame.result.value)]
    ELSE [c EXCEPT !.result = Threw("parseFile", WrapParseFailure(c.format, c.frame.result.value))]

\* Another call is under way.
Overlaps(cs, k) == \E i \in 1..Len(cs) : i # k /\ Unsettled(cs[i])

MarkOverlap(cs, k) ==
    IF Overlaps(cs, k) THEN [cs EXCEPT ![k].overlapped = TRUE] ELSE cs

\* A well-formed book of one chapter, next to GoodBook's two.
ShortBook ==
    File(<<"short", ".epub">>,
         Archive(<<>>, ContainerXml(Some(<<"content.opf">>)),
                 Opf(None, None, <<[id |-> "b", href |-> "c2"]>>, <<"b", "b">>),
                 NoEntry, Html(DocWorld)))

CallFiles ==
    { GoodBook,
      ShortBook,
      File(<<"BOOK", ".EPUB">>, Text(<<"x">>)),
      File(<<"notes", ".MD">>, Text(NotesText)),
      File(<<"draft", ".markdown">>, Unreadable),
      File(<<"report", ".docx">>, Text(<<"x">>)) }

StartCall(f) ==
    /\ Len(calls) < MaxCalls
    /\ calls' = NewCall(calls, parsers, f)
    /\ UNCHANGED <<parsers, regLog, file, outcome, call>>
    /\ UNCHANGED sessionVars

StepCall(k) ==
    /\ Unsettled(calls[k])
    /\ calls[k].frame.pc # "done"
    /\ calls' = MarkOverlap(StepOf(calls, k), k)
    /\ UNCHANGED <<parsers, regLog, file, outcome, call>>
    /\ UNCHANGED sessionVars

SettleCall(k) ==
    /\ Unsettled(calls[k])
    /\ calls[k].frame.pc = "done"
    /\ calls' = MarkOverlap([calls EXCEPT ![k] = Settled(calls[k])], k)
    /\ UNCHANGED <<parsers, regLog, file, outcome, call>>
    /\ UNCHANGED sessionVars

CallsInit ==
    /\ parsers = DefaultParsers
    /\ regLog = <<EpubParser, MarkdownParser>>
    /\ file = NoFile
    /\ outcome = NoOutcome
    /\ call = EpubIdle
    /\ calls = <<>>
    /\ SessionsIdle

CallsNext ==
    \/ \E f \in CallFiles : StartCall(f)
    \/ \E k \in 1..Len(calls) : StepCall(k)
    \/ \E k \in 1..Len(calls) : SettleCall(k)

SpecCalls == CallsInit /\ [][CallsNext]_vars

-----------------------------------------------------------------------------
\* The registry's history, read off the register calls alone.

RegisteredFormats == {regLog[i].format : i \in 1..Len(regLog)}

\* When a format was first registered, and the parser registered for it now
\* (the last one registered for it).
FirstRegistered(fmt) == Min({i \in 1..Len(regLog) : regLog[i].format = fmt})
RegisteredParser(fmt) == regLog[Max({i \in 1..Len(regLog) : regLog[i].format = fmt})]

\* The formats whose registered parser claims the file.
Claimants(f) == {fmt \in RegisteredFormats : CanParse(RegisteredParser(fmt), f)}

\* Position of a format in the registry's iteration order.
RegistryIndex(fmt) == CHOOSE i \in 1..Len(parsers) : parsers[i][1] = fmt

Contains(s, part) ==
    \E k \in 0..(Len(s) - Len(part)) : SubSeq(s, k + 1, k + Len(part)) = part

ParseFileDone == outcome.op = "parseFile"
DetectDone == outcome.op = "detectFormat"

\* C1: every failure of parseFile (no format detected, no parser for the
\* format, or whatever the selected parser's parse raised) reaches the caller
\* as a ParseError, and a parseFile that succeeds returns a whole ParseResult
\* (text, title, author and a format), never null and never a part of one.
C1_OnlyParseErrors ==
    ParseFileDone =>
        \/ /\ outcome.status = "threw"
           /\ outcome.value.class = "ParseError"
           /\ outcome.value.format \in FileFormat
        \/ /\ outcome.status = "returned"
           /\ DOMAIN outcome.value = {"text", "title", "author", "format"}
           /\ outcome.value.format \in FileFormat

\* A parser raised a plain Error and parseFile surfaced a ParseError.
C1_Witness ==
    /\ ParseFileDone
    /\ outcome.status = "threw"
    /\ outcome.raised.some
    /\ outcome.raised.v.class = "Error"
    /\ outcome.value.class = "ParseError"

\* C2: for a file that no registered parser claims, parseFile fails with a
\* ParseError tagged with the default format epub, without a cause, whose
\* message names the file; it returns no result.
C2_UnsupportedFile ==
    (ParseFileDone /\ Claimants(file) = {}) =>
        /\ outcome.status = "threw"
        /\ outcome.value.class = "ParseError"
        /\ outcome.value.format = EPUB
        /\ Contains(outcome.value.message, file.name)

\* parseFile was called on report.docx, which nothing claims.
C2_Witness ==
    /\ ParseFileDone
    /\ Claimants(file) = {}
    /\ file.name = <<"report", ".docx">>
    /\ outcome.status = "threw"

\* C3, as stated: whatever the selected parser's parse raised, parseFile
\* raises one ParseError with the detected format whose cause is the value
\* that was raised.
C3_CauseNeverLost ==
    (ParseFileDone /\ outcome.raised.some) =>
        /\ outcome.status = "threw"
        /\ outcome.value.class = "ParseError"
        /\ outcome.value.format = DetectFormat(parsers, file)
        /\ outcome.value.cause = Some(outcome.raised.v)

\* C3, amended: when the selected parser's parse raises, parseFile raises one
\* ParseError with the detected format; its cause is the raised value when
\* that value is an Error object (a ParseError included), and it has no cause
\* and the message "Unknown error" when the raised value is no Error object.
C3_CauseKeptForErrors ==
    (ParseFileDone /\ outcome.raised.some) =>
        /\ outcome.status = "threw"
        /\ outcome.value.class = "ParseError"
        /\ outcome.value.format = DetectFormat(parsers, file)
        /\ IF InstanceOfError(outcome.raised.v)
           THEN /\ outcome.value.cause = Some(outcome.raised.v)
                /\ Contains(outcome.value.message, outcome.raised.v.message)
           ELSE /\ outcome.value.cause = None
                /\ Contains(outcome.value.message, MSG_UNKNOWN)

\* The EPUB parser's own ParseError (with its cause) came back wrapped.
C3_Witness ==
    /\ ParseFileDone
    /\ outcome.raised.some
    /\ outcome.raised.v.class = "ParseError"
    /\ outcome.raised.v.cause.some
    /\ outcome.value.cause = Some(outcome.raised.v)

C5_DetectIffCanParse ==
    DetectDone =>
        \A fmt \in FileFormat :
            (outcome.value = fmt) <=>
                (GetParser(parsers, fmt).some /\ CanParse(GetParser(parsers, fmt).v, file))

\* C5, amended: detectFormat returns f if and only if the parser registered
\* for f returns true from canParse and no parser ahead of it in the
\* registry's order does.
C5_DetectIffFirstCanParse ==
    DetectDone =>
        \A fmt \in FileFormat :
            (outcome.value = fmt) <=>
                /\ GetParser(parsers, fmt).some
                /\ CanParse(GetParser(parsers, fmt).v, file)
                /\ \A g \in FileFormat :
                       (GetParser(parsers, g).some /\ CanParse(GetParser(parsers, g).v, file))
                           => RegistryIndex(fmt) <= RegistryIndex(g)

\* A format was returned although a second registered parser claimed the file too.
C5_Witness ==
    /\ DetectDone
    /\ outcome.value # NULL
    /\ \E g \in FileFormat \ {outcome.value} :
           GetParser(parsers, g).some /\ CanParse(GetParser(parsers, g).v, file)

-----------------------------------------------------------------------------
\* The EPUB parser's claims, read off the generated book itself.

IsZip(f) == f.bytes.t = "zip"
HasEntry(f, path) == path \in DOMAIN f.bytes.entries
Entry(f, path) == f.bytes.entries[path]

\* The book has a container that names a package document that is there.
HasPackage(f) ==
    /\ IsZip(f)
    /\ HasEntry(f, CONTAINER_PATH)
    /\ Entry(f, CONTAINER_PATH).k = "container"
    /\ Entry(f, CONTAINER_PATH).fullPath.some
    /\ HasEntry(f, Entry(f, CONTAINER_PATH).fullPath.v)
    /\ Entry(f, Entry(f, CONTAINER_PATH).fullPath.v).k = "opf"

PackagePath(f) == Entry(f, CONTAINER_PATH).fullPath.v
Package(f) == Entry(f, PackagePath(f))

\* The path of a document that the package names by href: beside the package.
Beside(f, href) == SubSeq(PackagePath(f), 1, Len(PackagePath(f)) - 1) \o <<href>>

ManifestHas(f, id) == \E i \in 1..Len(Package(f).manifest) : Package(f).manifest[i].id = id

\* With unique ids, the one item of that id.
ItemOf(f, id) ==
    Package(f).manifest[CHOOSE i \in 1..Len(Package(f).manifest) :
                            Package(f).manifest[i].id = id]

\* Well formed: unique manifest ids with hrefs, every spine entry naming a
\* manifest item, every such item's document present in the archive.
EpubWellFormed(f) ==
    /\ HasPackage(f)
    /\ \A i, j \in 1..Len(Package(f).manifest) :
           /\ Package(f).manifest[i].id # NULL
           /\ Package(f).manifest[i].href # NULL
           /\ (i # j => Package(f).manifest[i].id # Package(f).manifest[j].id)
    /\ \A i \in 1..Len(Package(f).spine) :
           /\ Package(f).spine[i] # NULL
           /\ ManifestHas(f, Package(f).spine[i])
           /\ HasEntry(f, Beside(f, ItemOf(f, Package(f).spine[i]).href))
           /\ Entry(f, Beside(f, ItemOf(f, Package(f).spine[i]).href)).k = "html"

\* The paragraph each generated document must give, written out.
ExpectedParagraph(body) ==
    CASE body = DocHello -> <<"Hello", NL, NL>>
      [] body = DocWorld -> <<"World", SP, "x", NL, NL>>
      [] body = DocBlank -> <<NL, NL>>
      [] OTHER -> <<"decoy", NL, NL>>

RECURSIVE ExpectedTextFrom(_, _)
ExpectedTextFrom(f, i) ==
    IF i > Len(Package(f).spine) THEN EMPTY
    ELSE ExpectedParagraph(Entry(f, Beside(f, ItemOf(f, Package(f).spine[i]).href)).body)
             \o ExpectedTextFrom(f, i + 1)

EpubDone == call.pc = "done"

\* C6: for a well-formed EPUB the text that parse returns is the
\* concatenation, in spine order, of each spine entry's document text, white
\* space collapsed and trimmed, each followed by "\n\n", whatever the order
\* of the manifest's items.
C6_TextInSpineOrder ==
    (EpubDone /\ EpubWellFormed(file)) =>
        /\ call.result.status = "returned"
        /\ call.result.value.text = ExpectedTextFrom(file, 1)

\* A book whose spine runs against its manifest's order was parsed.
C6_Witness ==
    /\ EpubDone
    /\ EpubWellFormed(file)
    /\ Package(file).manifest = <<[id |-> "a", href |-> "c1"], [id |-> "b", href |-> "c2"]>>
    /\ Package(file).spine = <<"b", "a">>
    /\ call.result.status = "returned"
    /\ call.result.value.text = <<"World", SP, "x", NL, NL, "Hello", NL, NL>>

\* The spine entry the loop is at has no idref or names no manifest item.
AtDanglingRef ==
    /\ call.pc = "spine"
    /\ call.pos <= Len(Package(file).spine)
    /\ \/ Package(file).spine[call.pos] = NULL
       \/ ~ManifestHas(file, Package(file).spine[call.pos])

\* C7: a spine itemref without an idref, or whose idref names no manifest
\* item, is passed over: the loop goes on to the next entry, no error is
\* raised and nothing is added to the text, not even an empty paragraph.
C7_DanglingRefSkipped ==
    [][AtDanglingRef =>
          /\ call'.pc = "spine"
          /\ call'.pos = call.pos + 1
          /\ call'.fullText = call.fullText
          /\ call'.result = NoOutcome]_vars

\* parse succeeded on a spine of a dangling reference and a good one, with
\* the good one's paragraph alone.
C7_Witness ==
    /\ EpubDone
    /\ HasPackage(file)
    /\ Package(file).manifest = <<[id |-> "a", href |-> "c1"]>>
    /\ Package(file).spine = <<"b", "a">>
    /\ call.result.status = "returned"
    /\ call.result.value.text = <<"Hello", NL, NL>>

\* The ParseError of a structural failure: tagged epub, its message carrying
\* the failure's text, its cause the one Error raised for that failure.
IsStructuralError(e, msg) ==
    /\ e.class = "ParseError"
    /\ e.format = EPUB
    /\ Contains(e.message, msg)
    /\ e.cause = Some([class |-> "Error", message |-> msg])

\* C8: a missing container descriptor, a descriptor without a root-file path
\* and a package document that is not in the archive each make parse fail
\* with a ParseError tagged epub whose message tells that failure and whose
\* cause is the error raised for it and nothing else; no result is returned.
C8_StructuralFailures ==
    (EpubDone /\ IsZip(file)) =>
        /\ ~HasEntry(file, CONTAINER_PATH) =>
               /\ call.result.status = "threw"
               /\ IsStructuralError(call.result.value, MSG_CONTAINER)
        /\ (/\ HasEntry(file, CONTAINER_PATH)
            /\ Entry(file, CONTAINER_PATH).k = "container"
            /\ ~Entry(file, CONTAINER_PATH).fullPath.some) =>
               /\ call.result.status = "threw"
               /\ IsStructuralError(call.result.value, MSG_OPF_PATH)
        /\ (/\ HasEntry(file, CONTAINER_PATH)
            /\ Entry(file, CONTAINER_PATH).k = "container"
            /\ Entry(file, CONTAINER_PATH).fullPath.some
            /\ Entry(file, CONTAINER_PATH).fullPath.v # <<>>
            /\ ~HasEntry(file, Entry(file, CONTAINER_PATH).fullPath.v)) =>
               /\ call.result.status = "threw"
               /\ IsStructuralError(call.result.value, MSG_OPF_MISSING)

\* parse failed on an archive that has no META-INF/container.xml.
C8_Witness ==
    /\ EpubDone
    /\ IsZip(file)
    /\ ~HasEntry(file, CONTAINER_PATH)
    /\ call.result.status = "threw"
    /\ call.result.value.cause = Some(Error(MSG_CONTAINER))

-----------------------------------------------------------------------------
\* The Markdown parser's claims, read off the file's lines.

\* The text cut at its line breaks: n line breaks give n + 1 pieces.
RECURSIVE SplitLines(_)
SplitLines(t) ==
    IF \A i \in 1..Len(t) : t[i] # NL THEN <<t>>
    ELSE LET i == Min({j \in 1..Len(t) : t[j] = NL})
         IN  <<SubSeq(t, 1, i - 1)>> \o SplitLines(SubSeq(t, i + 1, Len(t)))

\* A line of three dashes and nothing else but blanks after them.
IsDashLine(l) ==
    /\ Len(l) >= 1
    /\ l[1] = DASHES
    /\ \A i \in 2..Len(l) : l[i] \in {SP, TAB}

\* A line "key value": the key at the line's start and a value after it.
IsKeyLine(l, key, value) ==
    /\ Len(l) >= 2
    /\ l[1] = key
    /\ SelectSeq(Tail(l), LAMBDA tok : tok \notin {SP, TAB}) = value

\* Dash lines after the first line that a line break ends.
ClosingLines(ls) == {k \in 2..(Len(ls) - 1) : IsDashLine(ls[k])}

\* A well-formed frontmatter block with title: X and author: Y: an opening
\* dash line, lines among which are the two, then the first later dash
\* line, itself ended by a line break.
HasFrontmatterXY(t) ==
    LET ls == SplitLines(t)
    IN  /\ Len(ls) >= 4
        /\ IsDashLine(ls[1])
        /\ ClosingLines(ls) # {}
        /\ \A k \in 2..Len(ls) : IsDashLine(ls[k]) => k >= Min(ClosingLines(ls))
        /\ \E i \in 2..(Min(ClosingLines(ls)) - 1) : IsKeyLine(ls[i], TITLE_KEY, <<"X">>)
        /\ \E i \in 2..(Min(ClosingLines(ls)) - 1) : IsKeyLine(ls[i], AUTHOR_KEY, <<"Y">>)

\* What follows the line break of the closing dash line.
RECURSIVE LengthThrough(_, _)
LengthThrough(ls, k) == IF k = 0 THEN 0 ELSE Len(ls[k]) + 1 + LengthThrough(ls, k - 1)

Remainder(t) ==
    LET ls == SplitLines(t)
    IN  SubSeq(t, LengthThrough(ls, Min(ClosingLines(ls))) + 1, Len(t))

\* The file's name ends in .md, in either case.
IsMdName(name) == Len(name) > 0 /\ name[Len(name)] \in {".md", ".MD"}

NoFrontmatter(t) == ~IsDashLine(SplitLines(t)[1])

\* C10: for a .md file whose content does not start with a frontmatter
\* block, parse succeeds with the whole content, trimmed at both ends, as
\* text, the file's base name as title and no author.
C10_NoFrontmatterTrimmed ==
    (ParseFileDone /\ EndsWith(file.name, ".md") /\ NoFrontmatter(file.bytes.chars)) =>
        /\ outcome.status = "returned"
        /\ outcome.value.text = Trim(file.bytes.chars)
        /\ outcome.value.title = SubSeq(file.name, 1, Len(file.name) - 1)
        /\ outcome.value.author = None

-----------------------------------------------------------------------------
\* Titles.

\* The parser that parseFile selected is one of the repository's own two.
BuiltInResult ==
    /\ ParseFileDone
    /\ outcome.status = "returned"
    /\ outcome.value.format \in {EPUB, MARKDOWN}
    /\ RegisteredParser(outcome.value.format) \in {EpubParser, MarkdownParser}

\* The document declares no title: a package document without a title
\* element, a Markdown text without frontmatter.
DeclaresNoTitle(f) ==
    IF IsZip(f) THEN HasPackage(f) /\ ~Package(f).title.some
    ELSE f.bytes.t = "text" /\ NoFrontmatter(f.bytes.chars)

\* The extensions of the two formats, in any case.
IsFormatExtension(tok) ==
    tok \in {".epub", ".EPUB", ".md", ".MD", ".markdown", ".MARKDOWN"}

\* The file's name without its format extension.
BaseName(name) ==
    IF Len(name) > 0 /\ IsFormatExtension(name[Len(name)])
    THEN SubSeq(name, 1, Len(name) - 1)
    ELSE name

\* C11: when the document declares no title, the title of the result is the
\* file's name with the format extension stripped, for every name that the
\* parser's canParse accepts: .epub, .md and .markdown in any case.
C11_TitleIsBaseName ==
    (BuiltInResult /\ DeclaresNoTitle(file)) =>
        outcome.value.title = BaseName(file.name)

\* C12: every ParseResult that a successful parse of the EPUB or the Markdown
\* parser returns through parseFile has a title that is not empty.
C12_TitleNotEmpty ==
    BuiltInResult => outcome.value.title # EMPTY

-----------------------------------------------------------------------------
\* The PDF placeholder.

IsPdfName(name) == Len(name) > 0 /\ name[Len(name)] \in {".pdf", ".PDF"}

\* The PDF parser is registered and nothing registered ahead of it claims the file.
PdfFirst(f) ==
    /\ PDF \in RegisteredFormats
    /\ RegisteredParser(PDF) = PdfParser
    /\ \A g \in Claimants(f) : FirstRegistered(PDF) <= FirstRegistered(g)

\* C13, as stated: the PDF parser is registered, so a file named *.pdf is
\* detected as pdf and parseFile fails on it with the ParseError tagged pdf
\* that says PDF parsing is not yet implemented.
C13_PdfRecognized ==
    /\ (DetectDone /\ IsPdfName(file.name)) => outcome.value = PDF
    /\ (ParseFileDone /\ IsPdfName(file.name)) =>
           /\ outcome.status = "threw"
           /\ outcome.value.class = "ParseError"
           /\ outcome.value.format = PDF
           /\ Contains(outcome.value.message, MSG_PDF)

\* C13, amended: the registry as constructed holds no PDF parser, and while
\* no registered parser claims a file named *.pdf, detectFormat returns null
\* for it and parseFile fails with the unsupported-format ParseError tagged
\* epub.  Once the PDF parser is registered and no parser ahead of it claims
\* the file, detectFormat returns pdf and parseFile fails with a ParseError
\* tagged pdf whose message carries "PDF parsing is not yet implemented" and
\* whose cause is the parser's own ParseError tagged pdf; that failure does
\* not read as the unsupported-format one.
C13_PdfOnceRegistered ==
    /\ Len(regLog) = Len(DefaultParsers) => ~GetParser(parsers, PDF).some
    /\ (DetectDone /\ IsPdfName(file.name)) =>
           /\ Claimants(file) = {} => outcome.value = NULL
           /\ PdfFirst(file) => outcome.value = PDF
    /\ (ParseFileDone /\ IsPdfName(file.name)) =>
           /\ Claimants(file) = {} =>
                  /\ outcome.status = "threw"
                  /\ outcome.value.format = EPUB
                  /\ Contains(outcome.value.message, MSG_UNSUPPORTED)
                  /\ ~Contains(outcome.value.message, MSG_PDF)
           /\ PdfFirst(file) =>
                  /\ outcome.status = "threw"
                  /\ outcome.value.class = "ParseError"
                  /\ outcome.value.format = PDF
                  /\ Contains(outcome.value.message, MSG_PDF)
                  /\ ~Contains(outcome.value.message, MSG_UNSUPPORTED)
                  /\ outcome.value.cause = Some(ParseError(MSG_PDF, PDF, None))

\* parseFile ran on paper.pdf with the PDF parser registered.
C13_Witness ==
    /\ ParseFileDone
    /\ file.name = <<"paper", ".pdf">>
    /\ PdfFirst(file)
    /\ outcome.status = "threw"
    /\ outcome.value.format = PDF

-----------------------------------------------------------------------------
\* parseFile calls, one after another and interleaved.

CallSettled(k) == k \in 1..Len(calls) /\ ~Unsettled(calls[k])

\* C14: two parseFile calls on the same unmodified file settle alike: the
\* same ParseResult when one returns (the same failure when one fails),
\* whatever was parsed before or in between.
C14_SameFileSameResult ==
    \A i, j \in 1..Len(calls) :
        (CallSettled(i) /\ CallSettled(j) /\ calls[i].file = calls[j].file) =>
            calls[i].result = calls[j].result

\* The same book was parsed twice, the second call after the first had settled.
C14_Witness ==
    /\ Len(calls) = 2
    /\ calls[1].file = GoodBook
    /\ calls[2].file = GoodBook
    /\ ~calls[1].overlapped
    /\ ~calls[2].overlapped
    /\ CallSettled(1)
    /\ CallSettled(2)
    /\ calls[2].result.status = "returned"
    /\ calls[2].result.value.text = <<"Hello", NL, NL, "World", SP, "x", NL, NL>>

\* What parseFile(f) settles to when it runs alone.
AloneOutcome(f) ==
    LET r == ParseFile(DefaultParsers, f, "returns")
    IN  [status |-> r.status, op |-> r.op, value |-> r.value]

\* C15: of parseFile calls on different files that run interleaved at their
\* suspension points (the reads of the spine loop among them), each settles
\* to what it settles to when run alone.
C15_ConcurrentAsAlone ==
    \A k \in 1..Len(calls) :
        (CallSettled(k) /\ \A i \in 1..Len(calls) : i # k => calls[i].file # calls[k].file) =>
            calls[k].result = AloneOutcome(calls[k].file)

\* Two books were parsed with their steps interleaved, each to its own text.
C15_Witness ==
    /\ Len(calls) = 2
    /\ calls[1].file = GoodBook
    /\ calls[2].file = ShortBook
    /\ calls[1].overlapped
    /\ calls[2].overlapped
    /\ CallSettled(1)
    /\ CallSettled(2)
    /\ calls[1].result.value.text = <<"Hello", NL, NL, "World", SP, "x", NL, NL>>
    /\ calls[2].result.value.text = <<"World", SP, "x", NL, NL, "World", SP, "x", NL, NL>>

-----------------------------------------------------------------------------
\* The registry's own operations.

\* C16: register(parser) writes the entry of parser.format and no other:
\* afterwards getParser(parser.format) is that parser, the last one
\* registered for the format, and getParser of every other format is what it
\* was before.
C16_RegisterFrame ==
    [][\A p \in Parsers :
          (regLog' = Append(regLog, p)) =>
              /\ GetParser(parsers', p.format) = Some(p)
              /\ \A g \in FileFormat \ {p.format} :
                     GetParser(parsers', g) = GetParser(parsers, g)]_vars

\* A second parser was registered for epub and took the entry; the Markdown
\* entry is the one of construction.
C16_Witness ==
    /\ Len(regLog) = 3
    /\ regLog[3] = Custom(EPUB, "all")
    /\ GetParser(parsers, EPUB) = Some(Custom(EPUB, "all"))
    /\ GetParser(parsers, MARKDOWN) = Some(MarkdownParser)
    /\ ~GetParser(parsers, TXT).some

\* The registered formats in the order of their first registration.
NthFormat(n) ==
    CHOOSE fmt \in RegisteredFormats :
        Cardinality({g \in RegisteredFormats : FirstRegistered(g) < FirstRegistered(fmt)}) = n - 1

RECURSIVE ExpectedExtensionsFrom(_)
ExpectedExtensionsFrom(n) ==
    IF n > Cardinality(RegisteredFormats) THEN <<>>
    ELSE Extensions(RegisteredParser(NthFormat(n))) \o ExpectedExtensionsFrom(n + 1)

SupportedDone == outcome.op = "getSupportedFormats"

\* C17: getSupportedFormats returns, as extensions, the extensions of every
\* registered parser one after the other in registration order, duplicates
\* kept, and as accept those extensions each with a "." before it, joined
\* by ",".  Registration order is the order in which the formats were first
\* registered, and a format's parser is the last one registered for it.
C17_SupportedFormats ==
    SupportedDone =>
        LET exts == outcome.value.extensions
            accept == outcome.value.accept
            n == Len(exts)
        IN  /\ exts = ExpectedExtensionsFrom(1)
            /\ Len(accept) = IF n = 0 THEN 0 ELSE 3 * n - 1
            /\ \A k \in 1..n :
                   /\ accept[3 * k - 2] = "."
                   /\ accept[3 * k - 1] = exts[k]
                   /\ k < n => accept[3 * k] = ","

\* With a txt parser registered that also lists epub, epub is listed twice.
C17_Witness ==
    /\ SupportedDone
    /\ outcome.value.extensions = <<"epub", "md", "markdown", "epub", "txt">>
    /\ outcome.value.accept =
           <<".", "epub", ",", ".", "md", ",", ".", "markdown", ",", ".", "epub", ",", ".", "txt">>

\* Contents a file of any name may have.
OtherContents == {Unreadable, Text(<<"x">>), Text(NotesText), UntitledArchive}

\* C18: what detectFormat returns depends on the file's name alone, compared
\* without regard to case: every file of the same name, whatever its
\* content, gets the same answer.
C18_DetectByNameOnly ==
    DetectDone =>
        \A g \in RegistryFiles \cup {File(file.name, b) : b \in OtherContents} :
            ToLowerCase(g.name) = ToLowerCase(file.name) =>
                DetectFormat(parsers, g) = outcome.value

\* BOOK.EPUB, whose content is plain text and no archive, was detected as epub.
C18_Witness ==
    /\ DetectDone
    /\ file = File(<<"BOOK", ".EPUB">>, Text(<<"x">>))
    /\ GetParser(parsers, EPUB) = Some(EpubParser)
    /\ outcome.value = EPUB

-----------------------------------------------------------------------------
\* Failures and gaps of an EPUB.

\* What is wrong with the file, read off its bytes: the error that the
\* archive reader or the parser raises for it, or None.
FileDefect(f) ==
    IF ~IsZip(f) THEN Some(Error(ZIP_ERROR))
    ELSE IF ~HasEntry(f, CONTAINER_PATH) \/ Entry(f, CONTAINER_PATH).k # "container"
         THEN Some(Error(MSG_CONTAINER))
    ELSE IF Entry(f, CONTAINER_PATH).fullPath \in {None, Some(<<>>)}
         THEN Some(Error(MSG_OPF_PATH))
    ELSE IF ~HasEntry(f, Entry(f, CONTAINER_PATH).fullPath.v)
            \/ Entry(f, Entry(f, CONTAINER_PATH).fullPath.v).k # "opf"
         THEN Some(Error(MSG_OPF_MISSING))
    ELSE None

\* C19: an exception raised inside EpubParser.parse, by the archive reader
\* or by the parser's own checks, none of them a ParseError, leaves parse as
\* a ParseError tagged epub whose message is "EPUB parsing failed: " followed
\* by the exception's message and whose cause is that exception.
C19_ExceptionsWrapped ==
    EpubDone =>
        IF FileDefect(file).some
        THEN /\ call.result.status = "threw"
             /\ call.result.value.class = "ParseError"
             /\ call.result.value.format = EPUB
             /\ call.result.value.cause = FileDefect(file)
             /\ call.result.value.message = MSG_EPUB_FAILED \o FileDefect(file).v.message
        ELSE call.result.status = "returned"

\* parse failed on bytes that are no archive, with the archive reader's error as cause.
C19_Witness ==
    /\ EpubDone
    /\ ~IsZip(file)
    /\ call.result.status = "threw"
    /\ call.result.value.cause = Some(Error(ZIP_ERROR))
    /\ call.result.value.message = MSG_EPUB_FAILED \o ZIP_ERROR

\* Every spine entry names a manifest item (ids unique, each with an href).
SpineResolves(f) ==
    /\ HasPackage(f)
    /\ \A i, j \in 1..Len(Package(f).manifest) :
           /\ Package(f).manifest[i].id # NULL
           /\ Package(f).manifest[i].href # NULL
           /\ (i # j => Package(f).manifest[i].id # Package(f).manifest[j].id)
    /\ \A i \in 1..Len(Package(f).spine) :
           /\ Package(f).spine[i] # NULL
           /\ ManifestHas(f, Package(f).spine[i])

\* The archive path of the document of spine entry i.
DocumentPath(f, i) == Beside(f, ItemOf(f, Package(f).spine[i]).href)

\* The documents that are in the archive are content documents with text.
DocumentsReadable(f) ==
    \A i \in 1..Len(Package(f).spine) :
        HasEntry(f, DocumentPath(f, i)) => Entry(f, DocumentPath(f, i)).k = "html"

SomeDocumentMissing(f) ==
    \E i \in 1..Len(Package(f).spine) : ~HasEntry(f, DocumentPath(f, i))

\* The paragraphs of the spine entries whose document is in the archive.
RECURSIVE ExpectedTextSkipping(_, _)
ExpectedTextSkipping(f, i) ==
    IF i > Len(Package(f).spine) THEN EMPTY
    ELSE (IF HasEntry(f, DocumentPath(f, i))
          THEN ExpectedParagraph(Entry(f, DocumentPath(f, i)).body)
          ELSE EMPTY) \o ExpectedTextSkipping(f, i + 1)

\* C20: a spine entry whose resolved path has no entry in the archive is
\* passed over without an error: parse returns, and its text is the
\* paragraphs of the other spine entries in spine order.
C20_MissingDocumentSkipped ==
    (/\ EpubDone
     /\ SpineResolves(file)
     /\ DocumentsReadable(file)
     /\ SomeDocumentMissing(file)) =>
        /\ call.result.status = "returned"
        /\ call.result.value.text = ExpectedTextSkipping(file, 1)

\* The first chapter of a two-chapter book is not in the archive.
C20_Witness ==
    /\ EpubDone
    /\ SpineResolves(file)
    /\ Package(file).manifest = SmallManifest
    /\ Package(file).spine = <<"a", "b">>
    /\ ~HasEntry(file, DocumentPath(file, 1))
    /\ HasEntry(file, DocumentPath(file, 2))
    /\ call.result.status = "returned"
    /\ call.result.value.text = <<"World", SP, "x", NL, NL>>

-----------------------------------------------------------------------------
\* The text of an EPUB, cut into its segments.

UNTERMINATED == "<unterminated>"

\* The pieces of a text that end at each "\n\n"; what is left after the last
\* "\n\n", if anything, is marked as unterminated.
RECURSIVE Segments(_)
Segments(t) ==
    IF t = <<>> THEN <<>>
    ELSE IF \E i \in 1..(Len(t) - 1) : t[i] = NL /\ t[i + 1] = NL
         THEN LET i == Min({j \in 1..(Len(t) - 1) : t[j] = NL /\ t[j + 1] = NL})
              IN  <<SubSeq(t, 1, i - 1)>> \o Segments(SubSeq(t, i + 2, Len(t)))
         ELSE <<Append(t, UNTERMINATED)>>

\* C21: the reading order is used as the spine gives it, neither sorted again
\* nor rid of repeats: for a well-formed book the text has one segment per
\* spine entry, the i-th being the text of the i-th entry's document, so a
\* document that k entries name gives its text k times, at their positions.
C21_ReadingOrderKept ==
    (EpubDone /\ EpubWellFormed(file)) =>
        /\ call.result.status = "returned"
        /\ LET segs == Segments(call.result.value.text)
               spine == Package(file).spine
           IN  /\ Len(segs) = Len(spine)
               /\ \A i \in 1..Len(spine) :
                      segs[i] \o <<NL, NL>> =
                          ExpectedParagraph(Entry(file, DocumentPath(file, i)).body)
               /\ \A i, j \in 1..Len(spine) : spine[i] = spine[j] => segs[i] = segs[j]

\* A spine that names the same chapter twice gave its text twice.
C21_Witness ==
    /\ EpubDone
    /\ EpubWellFormed(file)
    /\ Package(file).spine = <<"b", "b">>
    /\ call.result.status = "returned"
    /\ Segments(call.result.value.text) = <<<<"World", SP, "x">>, <<"World", SP, "x">>>>

-----------------------------------------------------------------------------
\* Manifest items that share an id.

\* The last manifest item, in document order, of that id.
LastItemOf(f, id) ==
    Package(f).manifest[Max({i \in 1..Len(Package(f).manifest) :
                                Package(f).manifest[i].id = id})]

\* Some spine entry names an id that several manifest items carry.
SpineNamesSharedId(f) ==
    \E k \in 1..Len(Package(f).spine) :
        \E i, j \in 1..Len(Package(f).manifest) :
            /\ i # j
            /\ Package(f).manifest[i].id = Package(f).spine[k]
            /\ Package(f).manifest[j].id = Package(f).spine[k]

\* What spine entry k gives when the last item of its id is the one used:
\* the paragraph of that item's document, or nothing when the entry names no
\* item, the item has no href or the document is not in the archive.
ParagraphByLastItem(f, k) ==
    LET idref == Package(f).spine[k]
    IN  IF idref = NULL \/ ~ManifestHas(f, idref) THEN EMPTY
        ELSE LET href == LastItemOf(f, idref).href
             IN  IF href = NULL \/ ~HasEntry(f, Beside(f, href)) THEN EMPTY
                 ELSE IF Entry(f, Beside(f, href)).k # "html" THEN EMPTY
                 ELSE ExpectedParagraph(Entry(f, Beside(f, href)).body)

RECURSIVE TextByLastItem(_, _)
TextByLastItem(f, k) ==
    IF k > Len(Package(f).spine) THEN EMPTY
    ELSE ParagraphByLastItem(f, k) \o TextByLastItem(f, k + 1)

\* C23: when several manifest items share an id, every spine reference to
\* that id uses the href of the last of them in document order, and parse
\* raises no error for the collision.
C23_LastManifestItemWins ==
    (EpubDone /\ HasPackage(file) /\ SpineNamesSharedId(file)) =>
        /\ call.result.status = "returned"
        /\ call.result.value.text = TextByLastItem(file, 1)

\* Two items of id "a", the first to chapter one and the last to chapter
\* two: both references to "a" gave chapter two.
C23_Witness ==
    /\ EpubDone
    /\ HasPackage(file)
    /\ Package(file).manifest = <<[id |-> "a", href |-> "c1"], [id |-> "a", href |-> "c2"]>>
    /\ Package(file).spine = <<"a", "a">>
    /\ HasEntry(file, Beside(file, "c1"))
    /\ Entry(file, Beside(file, "c1")).k = "html"
    /\ call.result.status = "returned"
    /\ call.result.value.text = <<"World", SP, "x", NL, NL, "World", SP, "x", NL, NL>>

-----------------------------------------------------------------------------
\* The shape of an EPUB's text.

\* Spine entry k gives a segment: it names a manifest item whose href is not
\* empty and whose document is in the archive with content.
Contributes(f, k) ==
    LET idref == Package(f).spine[k]
    IN  /\ idref # NULL
        /\ ManifestHas(f, idref)
        /\ LastItemOf(f, idref).href # NULL
        /\ HasEntry(f, Beside(f, LastItemOf(f, idref).href))
        /\ ~Falsy(Entry(f, Beside(f, LastItemOf(f, idref).href)))

\* Without line breaks, its white space collapsed to single spaces, trimmed.
IsCleanSegment(seg) ==
    /\ \A i \in 1..Len(seg) : seg[i] \notin {NL, TAB, UNTERMINATED}
    /\ \A i \in 1..(Len(seg) - 1) : ~(seg[i] = SP /\ seg[i + 1] = SP)
    /\ Len(seg) > 0 => (seg[1] # SP /\ seg[Len(seg)] # SP)

\* C25: the text that a successful parse returns is zero or more segments,
\* each without line breaks, white space collapsed and trimmed, each followed
\* by exactly "\n\n", the last one too; there are as many segments as spine
\* entries that resolve to a non-empty href whose archive entry is there
\* with content.
C25_TextIsSegments ==
    (EpubDone /\ call.result.status = "returned") =>
        LET segs == Segments(call.result.value.text)
        IN  /\ \A i \in 1..Len(segs) : IsCleanSegment(segs[i])
            /\ Len(segs) =
                   Cardinality({k \in 1..Len(Package(file).spine) : Contributes(file, k)})

\* Of two spine entries the first resolves to an empty archive entry: one segment.
C25_Witness ==
    /\ EpubDone
    /\ call.result.status = "returned"
    /\ Package(file).manifest = SmallManifest
    /\ Package(file).spine = <<"a", "b">>
    /\ HasEntry(file, DocumentPath(file, 1))
    /\ Falsy(Entry(file, DocumentPath(file, 1)))
    /\ Segments(call.result.value.text) = <<<<"World", SP, "x">>>>

-----------------------------------------------------------------------------
\* The values of a frontmatter block.

\* The lines of the matched block that start with the key.
KeyLines(t, key) ==
    LET ls == SplitLines(FrontmatterMatch(t).frontmatter)
    IN  {i \in 1..Len(ls) : Len(ls[i]) > 0 /\ ls[i][1] = key}

\* The remainders of those lines, trimmed.
LineValues(t, key) ==
    LET ls == SplitLines(FrontmatterMatch(t).frontmatter)
    IN  {Trim(Tail(ls[i])) : i \in KeyLines(t, key)}

\* C22: within a matched frontmatter block the title and the author are
\* each the remainder of their own "title:" / "author:" line, trimmed, and
\* never text of another line: a title that is returned is the remainder of
\* a title line, or the file's base name when no title was extracted; an
\* author that is returned is the remainder of an author line.
C22_ValueFromOwnLine ==
    (ParseFileDone /\ FrontmatterMatch(file.bytes.chars).matched) =>
        /\ outcome.status = "returned"
        /\ outcome.value.title \in
               LineValues(file.bytes.chars, TITLE_KEY) \cup {StripMdExtension(file.name)}
        /\ outcome.value.author.some =>
               outcome.value.author.v \in LineValues(file.bytes.chars, AUTHOR_KEY)

-----------------------------------------------------------------------------
\* The place of a replaced parser.

\* The formats in the order of their first registration.
FirstRegistrationOrder == [n \in 1..Cardinality(RegisteredFormats) |-> NthFormat(n)]

\* The keys of the registry in its iteration order.
KeysOf(reg) == [i \in 1..Len(reg) |-> reg[i][1]]

\* The places, in first-registration order, whose current parser claims f.
ClaimingPlaces(f) ==
    {n \in 1..Cardinality(RegisteredFormats) : CanParse(RegisteredParser(NthFormat(n)), f)}

\* C24: registering a parser for a format that is already registered
\* replaces the parser and keeps the format's place: the registry iterates
\* the formats in the order of their first registration, each with the
\* parser registered last for it, and detectFormat and getSupportedFormats
\* answer in that order.
C24_ReplacedKeepsPlace ==
    /\ KeysOf(parsers) = FirstRegistrationOrder
    /\ \A i \in 1..Len(parsers) : parsers[i][2] = RegisteredParser(parsers[i][1])
    /\ DetectDone =>
           outcome.value = IF ClaimingPlaces(file) = {} THEN NULL
                           ELSE NthFormat(Min(ClaimingPlaces(file)))
    /\ SupportedDone => outcome.value.extensions = ExpectedExtensionsFrom(1)

\* epub was registered again with a parser that claims every file: it still
\* comes before Markdown, and notes.MD is detected as epub.
C24_Witness ==
    /\ regLog = <<EpubParser, MarkdownParser, Custom(EPUB, "all")>>
    /\ KeysOf(parsers) = <<EPUB, MARKDOWN>>
    /\ DetectDone
    /\ file.name = <<"notes", ".MD">>
    /\ outcome.value = EPUB

-----------------------------------------------------------------------------
\* The session store (hooks/useBookSessions.ts) and the upload pipeline
\* (hooks/useBookProcessor.ts), as App.tsx wires them.
\*
\* A session is [id, status, message, metadata, summary, timestamp]; its
\* language and model never change and are left out.  A summary is the
\* sequence of the chunks received.

MaxUploads == 2     \* sessions that processBook creates
MaxChunks == 1      \* chunks that the calls in flight have received

CONTEXT_WINDOW_CHAR_LIMIT == 3500000

MSG_EXTRACTING == "Extracting text from EPUB..."
MSG_TOO_LONG == "The book is too long"
MSG_PARSE_FAILED == "Failed to parse EPUB"
MSG_NO_KEY == "API Key not found in environment variables."
MSG_SENDING == "Sending for deep analysis"
MSG_GEMINI == "Gemini API Error"
MSG_INTERRUPTED == "Process interrupted by page reload. Please try again."

\* JSON.stringify / JSON.parse of the sessions list: a string that holds it.
JSONStringify(v) == [json |-> v]
JSONParse(str) == str.json

\* { ...s, ...updates }
Merge(s, updates) ==
    [k \in DOMAIN s |-> IF k \in DOMAIN updates THEN updates[k] ELSE s[k]]

\* Sanitize interrupted sessions (useBookSessions.ts, lines 15-24).
Sanitize_OnlyParsing(s) ==
    IF s.status = "parsing"
    THEN Merge(s, [status |-> "error", message |-> MSG_INTERRUPTED])
    ELSE s

Sanitize(s) ==
    IF s.status = "parsing" \/ s.status = "analyzing"
    THEN Merge(s, [status |-> "error", message |-> MSG_INTERRUPTED])
    ELSE s

\* The initial value of the sessions state.
LoadSessions(storage) ==
    IF ~storage.sessions.some THEN <<>>
    ELSE LET parsed == JSONParse(storage.sessions.v)
         IN  [i \in 1..Len(parsed) |-> Sanitize(parsed[i])]

\* The initial value of the activeSessionId state.
LoadActiveSessionId(storage) == storage.activeId

\* The size of the stored list: a unit for each session and for each chunk
\* of a summary.
RECURSIVE StoredSize(_)
StoredSize(ss) ==
    IF ss = <<>> THEN 0 ELSE 1 + Len(Head(ss).summary) + StoredSize(Tail(ss))

\* localStorage.setItem throws when the value does not fit.
Fits(ss) == StoredSize(ss) <= quota

\* The persistence effects after a render: the sessions effect runs when the
\* sessions state was set and leaves the key as it was when setItem throws
\* (the catch of line 40); the active-id effect sets or removes its key.
Persist(storage, ss, active, sessionsSet) ==
    [sessions |-> IF sessionsSet /\ Fits(ss) THEN Some(JSONStringify(ss)) ELSE storage.sessions,
     activeId |-> IF active # NULL /\ active # "" THEN active ELSE NULL]

\* setSessions(prev => [session, ...prev])
AddSession(ss, session) == <<session>> \o ss

\* setSessions(prev => prev.map(s => s.id === id ? { ...s, ...updates } : s))
UpdateSession(ss, id, updates) ==
    [i \in 1..Len(ss) |-> IF ss[i].id = id THEN Merge(ss[i], updates) ELSE ss[i]]

\* setSessions(prev => prev.filter(s => s.id !== id))
FilterSession(ss, id) == SelectSeq(ss, LAMBDA s : s.id # id)

SessionIds == {sessions[i].id : i \in 1..Len(sessions)}

\* The ids an upload can get.
ClockIds == {ToString(t) : t \in 0..MaxUploads}

\* What the storage may hold: one session without summary, or every
\* session with every chunk.
Quotas == {1, MaxUploads * (1 + MaxChunks)}

\* The names of the files handed to processBook.
UploadNames == {<<"book", ".epub">>, <<"notes", ".md">>}

\* text.length of what parseEpub resolves to.
TextLengths == {CONTEXT_WINDOW_CHAR_LIMIT, CONTEXT_WINDOW_CHAR_LIMIT + 1}

\* The frame of a processBook call.  At "stream" the call awaits the
\* response stream or its next chunk: the stream's opening changes nothing
\* in the store.  orphaned is history: deleteSession was called with the
\* call's id while it was in flight.
NewRun(id) == [id |-> id, pc |-> "parseEpub", fullText |-> <<>>, orphaned |-> FALSE]

\* The call has returned: its frame is gone.
Finished(run) == [NewRun(NULL) EXCEPT !.pc = "done"]

\* processBook up to its first await.
ProcessBook(name) ==
    /\ uploads < MaxUploads
    /\ IF ~EndsWith(name, ".epub")
       THEN UNCHANGED <<sessions, activeSessionId, localStorage, runs, uploads, justLoaded>>
       ELSE LET newId == ToString(now)
                newSession == [id |-> newId, metadata |-> NULL, summary |-> <<>>,
                               status |-> "parsing", message |-> MSG_EXTRACTING,
                               timestamp |-> now]
            IN  /\ sessions' = AddSession(sessions, newSession)
                /\ activeSessionId' = newId
                /\ runs' = Append(runs, NewRun(newId))
                /\ uploads' = uploads + 1
                /\ justLoaded' = FALSE
                /\ localStorage' = Persist(localStorage, sessions', activeSessionId', TRUE)
    /\ UNCHANGED <<now, apiKey, quota>>
    /\ UNCHANGED parserVars

\* The clock advances.  Only its value at an upload is read, so it need not
\* run ahead of the uploads, nor run on after the last one.
Tick ==
    /\ now < uploads
    /\ uploads < MaxUploads
    /\ now' = now + 1
    /\ UNCHANGED <<sessions, activeSessionId, localStorage, runs, apiKey, quota, uploads>>
    /\ justLoaded' = FALSE
    /\ UNCHANGED parserVars

\* generateSummary up to its first await, on the sessions ss.
GenerateSummaryStart(ss, id) ==
    IF apiKey = ""
    THEN UpdateSession(ss, id, [status |-> "error", message |-> MSG_NO_KEY])
    ELSE UpdateSession(ss, id, [status |-> "analyzing", message |-> MSG_SENDING])

\* parseEpub resolves with a text of the given length: lines 40-54, and
\* generateSummary up to its first await.
ParseEpubResolves(r, length) ==
    /\ r \in 1..Len(runs)
    /\ runs[r].pc = "parseEpub"
    /\ LET id == runs[r].id
           withMetadata == UpdateSession(sessions, id, [metadata |-> [rawTextLength |-> length]])
       IN  IF length > CONTEXT_WINDOW_CHAR_LIMIT
           THEN /\ sessions' = UpdateSession(withMetadata, id,
                                             [status |-> "error", message |-> MSG_TOO_LONG])
                /\ runs' = [runs EXCEPT ![r] = Finished(runs[r])]
           ELSE /\ sessions' = GenerateSummaryStart(withMetadata, id)
                /\ runs' = [runs EXCEPT ![r] = IF apiKey = "" THEN Finished(runs[r])
                                               ELSE [runs[r] EXCEPT !.pc = "stream"]]
    /\ localStorage' = Persist(localStorage, sessions', activeSessionId, TRUE)
    /\ UNCHANGED <<activeSessionId, now, apiKey, quota, uploads>>
    /\ justLoaded' = FALSE
    /\ UNCHANGED parserVars

\* parseEpub rejects: the catch of line 56.
ParseEpubRejects(r) ==
    /\ r \in 1..Len(runs)
    /\ runs[r].pc = "parseEpub"
    /\ sessions' = UpdateSession(sessions, runs[r].id,
                                 [status |-> "error", message |-> MSG_PARSE_FAILED])
    /\ runs' = [runs EXCEPT ![r] = Finished(runs[r])]
    /\ localStorage' = Persist(localStorage, sessions', activeSessionId, TRUE)
    /\ UNCHANGED <<activeSessionId, now, apiKey, quota, uploads>>
    /\ justLoaded' = FALSE
    /\ UNCHANGED parserVars

RECURSIVE ChunksReceived(_)
ChunksReceived(rs) ==
    IF rs = <<>> THEN 0 ELSE Len(Head(rs).fullText) + ChunksReceived(Tail(rs))

\* The stream gives a chunk with text: lines 109-113.
StreamChunk(r) ==
    /\ r \in 1..Len(runs)
    /\ runs[r].pc = "stream"
    /\ ChunksReceived(runs) < MaxChunks
    /\ LET fullText == Append(runs[r].fullText, "chunk")
       IN  /\ runs' = [runs EXCEPT ![r].fullText = fullText]
           /\ sessions' = UpdateSession(sessions, runs[r].id,
                                        [summary |-> fullText, status |-> "analyzing"])
    /\ localStorage' = Persist(localStorage, sessions', activeSessionId, TRUE)
    /\ UNCHANGED <<activeSessionId, now, apiKey, quota, uploads>>
    /\ justLoaded' = FALSE
    /\ UNCHANGED parserVars

\* The stream ends: line 116.
StreamEnds(r) ==
    /\ r \in 1..Len(runs)
    /\ runs[r].pc = "stream"
    /\ runs' = [runs EXCEPT ![r] = Finished(runs[r])]
    /\ sessions' = UpdateSession(sessions, runs[r].id, [status |-> "complete"])
    /\ localStorage' = Persist(localStorage, sessions', activeSessionId, TRUE)
    /\ UNCHANGED <<activeSessionId, now, apiKey, quota, uploads>>
    /\ justLoaded' = FALSE
    /\ UNCHANGED parserVars

\* The request or the stream fails: the catch of line 118.
GeminiFails(r) ==
    /\ r \in 1..Len(runs)
    /\ runs[r].pc = "stream"
    /\ runs' = [runs EXCEPT ![r] = Finished(runs[r])]
    /\ sessions' = UpdateSession(sessions, runs[r].id,
                                 [status |-> "error", message |-> MSG_GEMINI])
    /\ localStorage' = Persist(localStorage, sessions', activeSessionId, TRUE)
    /\ UNCHANGED <<activeSessionId, now, apiKey, quota, uploads>>
    /\ justLoaded' = FALSE
    /\ UNCHANGED parserVars

\* deleteSession(id), from the list of sessions shown (App.tsx, line 81).
DeleteSession(id) ==
    /\ id \in SessionIds
    /\ sessions' = FilterSession(sessions, id)
    /\ activeSessionId' = IF activeSessionId = id THEN NULL ELSE activeSessionId
    /\ runs' = [r \in 1..Len(runs) |->
                   IF runs[r].id = id /\ runs[r].pc # "done"
                   THEN [runs[r] EXCEPT !.orphaned = TRUE] ELSE runs[r]]
    /\ localStorage' = Persist(localStorage, sessions', activeSessionId', TRUE)
    /\ UNCHANGED <<now, apiKey, quota, uploads>>
    /\ justLoaded' = FALSE
    /\ UNCHANGED parserVars

\* setActiveSessionId, with a listed session's id (App.tsx, line 80) or null
\* (lines 63 and 82).
SetActiveSessionId(id) ==
    /\ id \in SessionIds \cup {NULL}
    /\ id # activeSessionId
    /\ activeSessionId' = id
    /\ localStorage' = Persist(localStorage, sessions, activeSessionId', FALSE)
    /\ UNCHANGED <<sessions, now, runs, apiKey, quota, uploads>>
    /\ justLoaded' = FALSE
    /\ UNCHANGED parserVars

\* The page is loaded again: the calls in flight are gone, the two states
\* are initialised from the storage and the effects run after the first
\* render.
Reload ==
    /\ justLoaded' = TRUE
    /\ sessions' = LoadSessions(localStorage)
    /\ activeSessionId' = LoadActiveSessionId(localStorage)
    /\ runs' = <<>>
    /\ localStorage' = Persist(localStorage, sessions', activeSessionId', TRUE)
    /\ UNCHANGED <<now, apiKey, quota, uploads>>
    /\ UNCHANGED parserVars

\* The first load, with nothing stored, and its effects.
SessionsInit ==
    /\ parsers = DefaultParsers
    /\ regLog = <<EpubParser, MarkdownParser>>
    /\ file = NoFile
    /\ outcome = NoOutcome
    /\ call = EpubIdle
    /\ calls = <<>>
    /\ quota \in Quotas
    /\ sessions = LoadSessions([sessions |-> None, activeId |-> NULL])
    /\ activeSessionId = LoadActiveSessionId([sessions |-> None, activeId |-> NULL])
    /\ localStorage = Persist([sessions |-> None, activeId |-> NULL], sessions, activeSessionId, TRUE)
    /\ now = 0
    /\ runs = <<>>
    /\ apiKey \in {"", "key"}
    /\ uploads = 0
    /\ justLoaded = TRUE

SessionsNext ==
    \/ \E name \in UploadNames : ProcessBook(name)
    \/ Tick
    \/ \E r \in 1..MaxUploads, length \in TextLengths : ParseEpubResolves(r, length)
    \/ \E r \in 1..MaxUploads : ParseEpubRejects(r)
    \/ \E r \in 1..MaxUploads : StreamChunk(r)
    \/ \E r \in 1..MaxUploads : StreamEnds(r)
    \/ \E r \in 1..MaxUploads : GeminiFails(r)
    \/ \E id \in ClockIds : DeleteSession(id)
    \/ \E id \in ClockIds \cup {NULL} : SetActiveSessionId(id)
    \/ Reload

SpecSessions == SessionsInit /\ [][SessionsNext]_vars

-----------------------------------------------------------------------------
\* Sessions.

InProgress(s) == s.status \in {"parsing", "analyzing"}

\* C26: a session whose status has become 'complete' or 'error' never goes
\* back to 'parsing' or 'analyzing', whatever runs and whatever the user
\* does: a session in progress after a step is the one the step added, or
\* was in progress before it (the list keeps its order; an added session
\* comes first, a deletion leaves the others as they were).
C26_FinishedStaysFinished ==
    [][\A j \in 1..Len(sessions') :
          InProgress(sessions'[j]) =>
              \/ /\ Len(sessions') = Len(sessions) + 1
                 /\ (j = 1 \/ InProgress(sessions[j - 1]))
              \/ /\ Len(sessions') = Len(sessions)
                 /\ InProgress(sessions[j])
              \/ /\ Len(sessions') < Len(sessions)
                 /\ \E i \in 1..Len(sessions) : sessions[i] = sessions'[j]]_vars

\* C27: the sessions of the list have ids distinct from one another, also
\* when two uploads start before the clock advances, so that updateSession
\* changes at most one session.
C27_SessionIdsDistinct ==
    \A i, j \in 1..Len(sessions) : i # j => sessions[i].id # sessions[j].id

\* What is stored under book_distill_sessions, parsed.
StoredSessions ==
    IF localStorage.sessions.some THEN JSONParse(localStorage.sessions.v) ELSE <<>>

\* C30: right after the sessions are initialised from the storage, none of
\* them is 'parsing' or 'analyzing': a session stored in one of those states
\* is loaded as 'error' with the interruption message and its other fields
\* as stored, and a session stored 'complete' or 'error' is loaded as stored.
C30_InterruptedSanitized ==
    [][justLoaded' =>
          /\ Len(sessions') = Len(StoredSessions)
          /\ \A i \in 1..Len(StoredSessions) :
                 LET stored == StoredSessions[i]
                     loaded == sessions'[i]
                 IN  /\ loaded.status \notin {"parsing", "analyzing"}
                     /\ stored.status \in {"parsing", "analyzing"} =>
                            /\ loaded.status = "error"
                            /\ loaded.message = MSG_INTERRUPTED
                            /\ \A k \in DOMAIN stored \ {"status", "message"} :
                                   loaded[k] = stored[k]
                     /\ stored.status \in {"complete", "error"} => loaded = stored]_vars

\* After a reload: the upload that was being analysed is an error with the
\* interruption message and its chunk of summary, the completed one is as
\* it was.
C30_Witness ==
    /\ justLoaded
    /\ runs = <<>>
    /\ Len(sessions) = 2
    /\ sessions[1].status = "error"
    /\ sessions[1].message = MSG_INTERRUPTED
    /\ sessions[1].summary = <<"chunk">>
    /\ sessions[2].status = "complete"
    /\ sessions[2].message = MSG_SENDING

\* C28: once deleteSession(id) was called, an updateSession(id, ...) of a
\* processBook call still running for that id leaves the list of sessions
\* as it is: the deleted session does not come back and no other session
\* is changed.
C28_OrphanUpdatesNothing ==
    [][\A r \in 1..Len(runs) :
          (Len(runs') = Len(runs) /\ runs[r].orphaned /\ runs'[r] # runs[r]) =>
              sessions' = sessions]_vars

\* C29: activeSessionId is null or the id of a session of the list.
C29_ActiveSessionListed ==
    activeSessionId = NULL \/ activeSessionId \in SessionIds

====
